---- MODULE Spec2Model ----
(***************************************************************************)
(* A model of the pypowerwall caching proxy.                               *)
(*                                                                         *)
(*   - ConnectionManager (src/src/connectionManager.ts, lines 1-346): the  *)
(*     bounded-concurrency gateway to the backend with its FIFO queue,     *)
(*     per-URL exponential backoff and error window.  Specification SpecCM.*)
(*   - CacheManager (src/unnamed/part_002): the keyed cache with           *)
(*     stale-while-revalidate, request coalescing and the slow-request     *)
(*     fallback.  Specification SpecCE.                                    *)
(*                                                                         *)
(* Node.js runs every callback to completion, so one action is one         *)
(* callback (a macrotask together with the microtasks it triggers).  Time  *)
(* is Date.now() in milliseconds.                                          *)
(***************************************************************************)
EXTENDS Integers, Sequences, FiniteSets, TLC

VARIABLES
    now,                   \* Date.now()
    ticks,                 \* number of small clock steps taken so far
    \* ---- ConnectionManager fields
    maxConcurrentRequests, \* connectionManager.ts:36
    requestQueue,          \* connectionManager.ts:34
    activeRequestCount,    \* connectionManager.ts:35
    activeUrls,            \* connectionManager.ts:37
    isProcessingQueue,     \* connectionManager.ts:38
    recentlyCompleted,     \* connectionManager.ts:41
    backoffStates,         \* connectionManager.ts:45
    errorEvents,           \* connectionManager.ts:51
    \* ---- ConnectionManager: the event loop around it
    inFlight,              \* executeAndTrackRequest frames awaiting axios.get
    immediates,            \* processQueue callbacks scheduled by setImmediate
    nFetch,                \* number of fetch() calls made so far
    lastFetch,             \* what the latest fetch() call did for its caller
    dispatchOrder,         \* ids of the requests dispatched so far, in dispatch order
    consecutiveFailures,   \* per URL: upstream failures since the last success
    \* ---- CacheManager fields
    cache,                 \* part_002:8
    pendingRequests,       \* part_002:9, the id of the pending fetch or 0
    staleUpdateQueue,      \* part_002:10
    cacheStats,            \* part_002:13
    cacheBackoffStates,    \* part_002:17
    cacheErrorEvents,      \* part_002:23
    \* ---- CacheManager: the event loop around it
    upstream,              \* axios.get calls of fetchFromBackend in progress
    nUpstream,             \* number of upstream calls started so far
    clients,               \* per client: its getOrFetch call
    nCalls,                \* number of getOrFetch calls made so far
    staleScheduled,        \* per key: setImmediate callbacks of queueStaleUpdate not yet run
    staleWaiting,          \* per key: stale updates awaiting fetchFromBackend
    refreshesOfEntry,      \* per key: stale updates queued since the entry was stored
    staleLookups,          \* per key: lookups that found the entry stale since it was stored
    warmed,                \* warmCache has run
    notified,              \* responses handed to pluginManager.notifyResponse
    \* ---- the CacheManager that fetches through the ConnectionManager and
    \* ---- validates what it stores
    valCache,              \* per URL: the payload of its cache entry
    valPending,            \* per URL: the callers awaiting its pending fetch
    valDelivered,          \* what the latest fetch handed to its callers
    valNotified,           \* number of responses handed to the plugins
    validated,             \* the latest call of ResponseValidator.validate
    \* ---- ConfigLoader and PollingScheduler at startup
    configFile,            \* the urlConfigs declared in config.json
    urlConfigs,            \* ConfigLoader.get().urlConfigs
    schedulerPhase,        \* how far the startup has come
    intervals,             \* PollingScheduler.intervals: path -> timer handle
    timers,                \* the interval timers of the event loop that are live
    warmRequests,          \* paths warmCache has handed to fetchFromBackend
    pollRequests,          \* paths whose polling timer has fired
    loadedEntries,         \* entries stored under the loaded configuration
    \* ---- the proxy handler
    answered,              \* the latest HTTP answer of the proxy handler
    errorStats,            \* what the latest getErrorRateStats() returned
    lifecycle              \* how far ProxyServer.start() and stop() have come

cmVars == <<maxConcurrentRequests, requestQueue, activeRequestCount, activeUrls,
            isProcessingQueue, recentlyCompleted, backoffStates, errorEvents,
            inFlight, immediates, nFetch, lastFetch, dispatchOrder,
            consecutiveFailures>>

p2Vars == <<cache, pendingRequests, staleUpdateQueue, cacheStats, cacheBackoffStates,
            cacheErrorEvents, upstream, nUpstream, clients, nCalls, staleScheduled,
            staleWaiting, refreshesOfEntry, staleLookups, warmed, notified>>

valVars == <<valCache, valPending, valDelivered, valNotified, validated>>

pollVars == <<configFile, urlConfigs, schedulerPhase, intervals, timers,
              warmRequests, pollRequests, loadedEntries>>

serverVars == <<answered, errorStats, lifecycle>>

ceVars == <<p2Vars, valVars, pollVars, serverVars>>

vars == <<now, ticks, cmVars, ceVars>>

(***************************************************************************)
(* Bounds of the model.                                                    *)
(***************************************************************************)
MaxFetches == 3        \* fetch() calls in one behaviour of SpecCM
MaxProbes == 9         \* fetch() calls in one behaviour of SpecBackoff
MaxTicks == 1          \* small clock steps in one behaviour
MaxConcurrent == 2     \* the configured maxConcurrentRequests ranges over 1..MaxConcurrent

MaxClients == 2        \* clients calling getOrFetch
MaxCalls == 2          \* getOrFetch calls in one behaviour of SpecCE
MaxUpstream == 2       \* upstream calls of the CacheManager in one behaviour
MaxCacheTicks == 3     \* clock steps in one behaviour of SpecCE

MaxValFetches == 2     \* fetch() calls in one behaviour of SpecVal
MaxWaiters == 2        \* callers awaiting one pending fetch
MaxStarts == 2         \* calls of PollingScheduler.start() that set timers
MaxQuiet == 2          \* quiet periods in one behaviour of SpecStats
MaxCompletions == 21   \* fetch() calls in one behaviour of SpecRing
MaxRingFailures == 2   \* upstream failures in one behaviour of SpecRing

Urls == {"/a", "/b"}

\* the cache keys: a configured, polled path and the same path with a query string
CacheKeys == {"/a", "/a?x=1"}
Clients == 1..MaxClients

\* The configuration the CacheManager reads (Config, UrlConfig in types.ts);
\* cacheTTL, staleTime and pollInterval are in seconds, slowRequestTimeout in ms.
Config ==
    [cache |-> [defaultTTL |-> 15, defaultStaleTime |-> 10,
                slowRequestTimeout |-> 5000],
     urlConfigs |-> {[path |-> "/a", pollInterval |-> <<5>>, cacheTTL |-> 10,
                      staleTime |-> 5]}]

\* an optional field of a urlConfig: omitted, or set to a value
Omitted == <<>>
Set(v) == <<v>>
IsSet(x) == x # Omitted
ValueOf(x) == x[1]

(***************************************************************************)
(* Program constants.                                                      *)
(***************************************************************************)
MAX_RECENT_REQUESTS == 20
INITIAL_BACKOFF_DELAY == 5000
MAX_BACKOFF_DELAY == 300000
BACKOFF_MULTIPLIER == 2
ERROR_WINDOW_MS == 600000
ERROR_WINDOW_MINUTES == 10

\* one small clock step of SpecCM, in ms
TickMs == INITIAL_BACKOFF_DELAY \div 2
\* one quiet period of SpecStats, in ms
QuietMs == ERROR_WINDOW_MS \div 2
\* one clock step of SpecCE, in ms
CacheTickMs == Config.cache.slowRequestTimeout

Min(a, b) == IF a < b THEN a ELSE b
Max(a, b) == IF a > b THEN a ELSE b

Range(seq) == {seq[i] : i \in DOMAIN seq}

RECURSIVE Pow2(_)
Pow2(n) == IF n <= 0 THEN 1 ELSE 2 * Pow2(n - 1)

(***************************************************************************)
(* ConnectionManager: backoff bookkeeping.                                 *)
(***************************************************************************)
NoBackoff == [consecutiveErrors |-> 0, backoffDelay |-> 0,
              nextRetryTime |-> 0, lastErrorTime |-> 0]

\* backoffStates is a Map: a URL without an entry is mapped to NoBackoff here,
\* and an entry always has consecutiveErrors >= 1.
HasBackoff(path) == backoffStates[path] # NoBackoff

\* a variant that keeps the URL closed at the instant of nextRetryTime
isInBackoffInclusive(path) ==
    IF ~HasBackoff(path) THEN FALSE
    ELSE now <= backoffStates[path].nextRetryTime

isInBackoff(path) ==
    IF ~HasBackoff(path) THEN FALSE
    ELSE now < backoffStates[path].nextRetryTime

\* a variant that reports the whole delay instead of what is left of it
getBackoffDelayWhole(path) ==
    IF ~HasBackoff(path) THEN 0
    ELSE backoffStates[path].backoffDelay

getBackoffDelay(path) ==
    IF ~HasBackoff(path) THEN 0
    ELSE Max(0, backoffStates[path].nextRetryTime - now)

\* a variant that doubles without the cap
NextBackoffDelayNoCap(consecutiveErrors, backoffDelay) ==
    IF consecutiveErrors = 1 THEN INITIAL_BACKOFF_DELAY
    ELSE backoffDelay * BACKOFF_MULTIPLIER

\* recordError, lines 118-126: the delay once consecutiveErrors has been incremented
NextBackoffDelay(consecutiveErrors, backoffDelay) ==
    IF consecutiveErrors = 1 THEN INITIAL_BACKOFF_DELAY
    ELSE Min(backoffDelay * BACKOFF_MULTIPLIER, MAX_BACKOFF_DELAY)

\* recordError, lines 99-105: push the event, then drop those out of the window
ErrorEventsAfterError(path) ==
    LET InWindow(event) == now - event.timestamp < ERROR_WINDOW_MS
    IN  SelectSeq(Append(errorEvents, [timestamp |-> now, path |-> path]), InWindow)

\* recordError, lines 107-130
BackoffAfterError(path) ==
    LET old   == backoffStates[path]
        count == old.consecutiveErrors + 1
        delay == NextBackoffDelay(count, old.backoffDelay)
    IN  [backoffStates EXCEPT ![path] =
            [consecutiveErrors |-> count, backoffDelay |-> delay,
             nextRetryTime |-> now + delay, lastErrorTime |-> now]]

\* a variant in which a success resets the backoff of every URL
BackoffAfterSuccessForAll(path) ==
    [u \in DOMAIN backoffStates |-> NoBackoff]

\* recordSuccess
BackoffAfterSuccess(path) ==
    IF HasBackoff(path) /\ backoffStates[path].consecutiveErrors > 0
    THEN [backoffStates EXCEPT ![path] = NoBackoff]
    ELSE backoffStates

(***************************************************************************)
(* ConnectionManager: the queue and its dispatch loop.                     *)
(***************************************************************************)
\* a variant that dispatches whatever is queued
CanDispatchNoCap(queue, count) ==
    Len(queue) > 0

\* processQueue, line 254: the loop condition
CanDispatch(queue, count) ==
    Len(queue) > 0 /\ count < maxConcurrentRequests

\* a variant that reads the oldest request and leaves it queued
Peek(queue) == [request |-> Head(queue), rest |-> queue]

\* a variant that takes the newest request: requestQueue.pop()
Pop(queue) == [request |-> queue[Len(queue)],
               rest |-> SubSeq(queue, 1, Len(queue) - 1)]

\* processQueue, line 255: requestQueue.shift()
Shift(queue) == [request |-> Head(queue), rest |-> Tail(queue)]

\* processQueue, lines 254-272: the loop, from a given queue, count and URL set.
\* started lists the requests whose upstream call begins, in that order; each
\* remembers whether its URL was in backoff at that instant.
RECURSIVE DispatchLoop(_, _, _, _)
DispatchLoop(queue, count, urls, started) ==
    IF CanDispatch(queue, count)
    THEN LET s == Shift(queue)
             r == s.request
         IN  DispatchLoop(s.rest, count + 1, urls \cup {r.fullUrl},
                          Append(started,
                                 [id |-> r.id, fullUrl |-> r.fullUrl,
                                  startTime |-> now,
                                  startedInBackoff |-> isInBackoff(r.fullUrl)]))
    ELSE [queue |-> queue, count |-> count, urls |-> urls, started |-> started]

\* processQueue: returns at once when a run of it is in progress
processQueue(queue) ==
    IF isProcessingQueue
    THEN [queue |-> queue, count |-> activeRequestCount, urls |-> activeUrls,
          started |-> <<>>]
    ELSE DispatchLoop(queue, activeRequestCount, activeUrls, <<>>)

\* fetch(fullUrl): what it does to the ConnectionManager
FetchCM(fullUrl) ==
    /\ nFetch' = nFetch + 1
    /\ IF isInBackoff(fullUrl)
       THEN /\ lastFetch' = [fullUrl |-> fullUrl, outcome |-> "BackoffError",
                             retryAfterMs |-> getBackoffDelay(fullUrl),
                             consecutiveErrors |->
                                 backoffStates[fullUrl].consecutiveErrors]
            /\ UNCHANGED <<requestQueue, activeRequestCount, activeUrls, inFlight,
                           dispatchOrder>>
       ELSE LET p == processQueue(Append(requestQueue,
                         [id |-> nFetch + 1, fullUrl |-> fullUrl, queuedAt |-> now]))
            IN  /\ lastFetch' = [fullUrl |-> fullUrl, outcome |-> "queued",
                                 retryAfterMs |-> 0, consecutiveErrors |-> 0]
                /\ requestQueue' = p.queue
                /\ activeRequestCount' = p.count
                /\ activeUrls' = p.urls
                /\ inFlight' = inFlight \cup Range(p.started)
                /\ dispatchOrder' = dispatchOrder \o [i \in DOMAIN p.started |->
                                                         p.started[i].id]
    /\ UNCHANGED <<maxConcurrentRequests, isProcessingQueue,
                   recentlyCompleted, backoffStates, errorEvents, immediates,
                   consecutiveFailures>>

\* fetch(fullUrl), called on the ConnectionManager alone
Fetch(fullUrl) ==
    /\ FetchCM(fullUrl)
    /\ UNCHANGED <<now, ticks, ceVars>>

\* a variant that never drops a record
CompletedAfterUncapped(r, success) ==
    <<[fullUrl |-> r.fullUrl, startTime |-> r.startTime, endTime |-> now,
       runtimeMs |-> now - r.startTime, success |-> success]>>
    \o recentlyCompleted

\* executeAndTrackRequest, lines 293-304
CompletedAfter(r, success) ==
    LET all == <<[fullUrl |-> r.fullUrl, startTime |-> r.startTime, endTime |-> now,
                  runtimeMs |-> now - r.startTime, success |-> success]>>
               \o recentlyCompleted
    IN  IF Len(all) > MAX_RECENT_REQUESTS
        THEN SubSeq(all, 1, MAX_RECENT_REQUESTS)
        ELSE all

\* a variant in which a completion schedules no dispatch
ImmediatesAfterCompletionNone == immediates

\* processQueue, line 270: setImmediate(() => this.processQueue())
ImmediatesAfterCompletion == immediates + 1

\* The upstream call of r settles: executeRequest returns or throws,
\* executeAndTrackRequest records the completion, and the finally callback of
\* processQueue (lines 265-271) releases the slot and schedules a dispatch.
SettleCM(r, success) ==
    /\ r \in inFlight
    /\ inFlight' = inFlight \ {r}
    /\ IF success
       THEN /\ backoffStates' = BackoffAfterSuccess(r.fullUrl)
            /\ errorEvents' = errorEvents
            /\ consecutiveFailures' = [consecutiveFailures EXCEPT ![r.fullUrl] = 0]
       ELSE /\ backoffStates' = BackoffAfterError(r.fullUrl)
            /\ errorEvents' = ErrorEventsAfterError(r.fullUrl)
            /\ consecutiveFailures' =
                   [consecutiveFailures EXCEPT ![r.fullUrl] = @ + 1]
    /\ recentlyCompleted' = CompletedAfter(r, success)
    /\ activeRequestCount' = activeRequestCount - 1
    /\ activeUrls' = activeUrls \ {r.fullUrl}
    /\ immediates' = ImmediatesAfterCompletion
    /\ UNCHANGED <<maxConcurrentRequests, requestQueue,
                   isProcessingQueue, nFetch, lastFetch, dispatchOrder>>

\* the upstream call of r settles, seen from the ConnectionManager alone
Settle(r, success) ==
    /\ SettleCM(r, success)
    /\ UNCHANGED <<now, ticks, ceVars>>

\* What axios.get(backendUrl, ...) of executeRequest can end with: a response
\* with a status, or no response at all (a network error, or the 30 s timeout
\* of line 318).
Statuses == {200, 404, 500}

Outcomes ==
    [kind : {"response"}, status : Statuses]
    \cup [kind : {"network error", "timeout"}, status : {0}]

\* a variant that takes only the statuses below 400 for good
validateStatusBelow400(status) == status < 400

\* executeRequest, line 319: validateStatus
validateStatus(status) == status < 500

\* a variant without the validateStatus option: axios then resolves for 2xx only
AxiosResolvesOnly2xx(outcome) ==
    outcome.kind = "response" /\ outcome.status >= 200 /\ outcome.status < 300

\* axios.get resolves when a response arrived whose status validateStatus
\* accepts, and rejects otherwise
AxiosResolves(outcome) ==
    outcome.kind = "response" /\ validateStatus(outcome.status)

\* the upstream call of r ends with outcome
Respond(r, outcome) == Settle(r, AxiosResolves(outcome))

\* setImmediate(() => this.processQueue()), line 270
RunImmediate ==
    /\ immediates > 0
    /\ immediates' = immediates - 1
    /\ LET p == processQueue(requestQueue)
       IN  /\ requestQueue' = p.queue
           /\ activeRequestCount' = p.count
           /\ activeUrls' = p.urls
           /\ inFlight' = inFlight \cup Range(p.started)
           /\ dispatchOrder' = dispatchOrder \o [i \in DOMAIN p.started |->
                                                    p.started[i].id]
    /\ UNCHANGED <<now, ticks, maxConcurrentRequests, isProcessingQueue,
                   recentlyCompleted, backoffStates, errorEvents, nFetch, lastFetch,
                   consecutiveFailures, ceVars>>

(***************************************************************************)
(* The clock.                                                              *)
(***************************************************************************)
\* a small step; the clock is stepped where Date.now() decides something, that
\* is while a backoff window is open
Tick ==
    /\ ticks < MaxTicks
    /\ \E u \in Urls : isInBackoff(u)
    /\ ticks' = ticks + 1
    /\ now' = now + TickMs
    /\ UNCHANGED <<cmVars, ceVars>>

\* time passes until the backoff of a URL expires
WaitForRetry(path) ==
    /\ HasBackoff(path)
    /\ backoffStates[path].nextRetryTime > now
    /\ now' = backoffStates[path].nextRetryTime
    /\ UNCHANGED <<ticks, cmVars, ceVars>>

(***************************************************************************)
(* CacheManager (part_002): configuration and freshness.                   *)
(***************************************************************************)
\* what the backend answers to a GET of fullUrl: the answer depends on the
\* whole URL, query string included (id tells two answers to one URL apart)
ResponseData(id, fullUrl) == [id |-> id, url |-> fullUrl]

NoEntry == [data |-> ResponseData(0, ""), timestamp |-> 0, ttl |-> 0,
            staleTime |-> 0]

\* req.path of a request URL: the URL without its query string
PathOf(fullUrl) == IF fullUrl = "/a?x=1" THEN "/a" ELSE fullUrl

\* a variant that keys the cache by the path alone
CacheKeyByPath(fullUrl) == PathOf(fullUrl)

\* the key of the cache map: this.cache.get(fullUrl), this.cache.set(fullUrl,
\* entry)
CacheKey(fullUrl) == fullUrl

HasUrlConfig(path) == \E c \in Config.urlConfigs : c.path = path

getUrlConfig(path) == CHOOSE c \in Config.urlConfigs : c.path = path

getCacheTTL(path) ==
    IF HasUrlConfig(path) THEN getUrlConfig(path).cacheTTL * 1000
    ELSE Config.cache.defaultTTL * 1000

getStaleTime(path) ==
    IF HasUrlConfig(path) THEN getUrlConfig(path).staleTime * 1000
    ELSE Config.cache.defaultStaleTime * 1000

\* a variant under which an entry is still valid when its age equals its ttl
isCacheValidInclusive(entry) == (now - entry.timestamp) <= entry.ttl

\* isCacheValid, lines 58-61
isCacheValid(entry) == (now - entry.timestamp) < entry.ttl

isCacheStale(entry) == (now - entry.timestamp) >= entry.staleTime

\* the paths the PollingScheduler polls and warms
\* the test of warmCache (part_005 line 18) and of start (line 49):
\* urlConfig.pollInterval && urlConfig.pollInterval > 0
ShouldPoll(urlConfig) ==
    /\ IsSet(urlConfig.pollInterval)
    /\ ValueOf(urlConfig.pollInterval) # 0
    /\ ValueOf(urlConfig.pollInterval) > 0

PolledPaths ==
    {c.path : c \in {d \in Config.urlConfigs : ShouldPoll(d)}}

(***************************************************************************)
(* CacheManager: its own backoff bookkeeping (this revision does not go    *)
(* through the ConnectionManager).                                         *)
(***************************************************************************)
\* a variant that never reports a backoff
cacheIsInBackoffNever(path) == FALSE

\* isInBackoff, part_002 lines 67-73 (isEndpointInBackoff, lines 371-373)
cacheIsInBackoff(path) ==
    IF cacheBackoffStates[path] = NoBackoff THEN FALSE
    ELSE now < cacheBackoffStates[path].nextRetryTime

cacheRecordErrorEvents(path) ==
    LET InWindow(event) == now - event.timestamp < ERROR_WINDOW_MS
    IN  SelectSeq(Append(cacheErrorEvents, [timestamp |-> now, path |-> path]),
                  InWindow)

cacheRecordError(path) ==
    LET old   == cacheBackoffStates[path]
        count == old.consecutiveErrors + 1
        delay == IF count = 1 THEN INITIAL_BACKOFF_DELAY
                 ELSE Min(old.backoffDelay * BACKOFF_MULTIPLIER, MAX_BACKOFF_DELAY)
    IN  [cacheBackoffStates EXCEPT ![path] =
            [consecutiveErrors |-> count, backoffDelay |-> delay,
             nextRetryTime |-> now + delay, lastErrorTime |-> now]]

cacheRecordSuccess(path) ==
    IF cacheBackoffStates[path] # NoBackoff
       /\ cacheBackoffStates[path].consecutiveErrors > 0
    THEN [cacheBackoffStates EXCEPT ![path] = NoBackoff]
    ELSE cacheBackoffStates

(***************************************************************************)
(* CacheManager: fetchFromBackend.                                         *)
(***************************************************************************)
\* a variant that never finds a pending request
HasPendingNever(fullUrl) == FALSE

\* fetchFromBackend, lines 266-267
HasPending(fullUrl) == pendingRequests[fullUrl] # 0

\* fetchFromBackend up to its return: what the caller is handed.
\*   "cached"        the valid entry, served during backoff (lines 251-255)
\*   "BackoffError"  thrown (lines 258-262)
\*   "joined"        the promise of the pending request (lines 266-269)
\*   "started"       the promise of a new request (lines 272-322)
FetchOutcome(fullUrl) ==
    IF cacheIsInBackoff(fullUrl)
    THEN IF cache[CacheKey(fullUrl)] # NoEntry /\ isCacheValid(cache[CacheKey(fullUrl)])
         THEN [kind |-> "cached", fetch |-> 0, entry |-> cache[CacheKey(fullUrl)]]
         ELSE [kind |-> "BackoffError", fetch |-> 0, entry |-> NoEntry]
    ELSE IF HasPending(fullUrl)
         THEN [kind |-> "joined", fetch |-> pendingRequests[fullUrl],
               entry |-> NoEntry]
         ELSE [kind |-> "started", fetch |-> nUpstream + 1, entry |-> NoEntry]

\* fetchFromBackend of the revision src/src/cache.ts up to its return, lines
\* 214-239: during backoff it hands back whatever entry the cache holds,
\* expired or not (lines 224-229), and throws when there is none (line 232)
FetchOutcomeOlder(path) ==
    IF cacheIsInBackoff(path)
    THEN IF cache[CacheKey(path)] # NoEntry
         THEN [kind |-> "cached", fetch |-> 0, entry |-> cache[CacheKey(path)]]
         ELSE [kind |-> "BackoffError", fetch |-> 0, entry |-> NoEntry]
    ELSE IF HasPending(path)
         THEN [kind |-> "joined", fetch |-> pendingRequests[path],
               entry |-> NoEntry]
         ELSE [kind |-> "started", fetch |-> nUpstream + 1, entry |-> NoEntry]

\* a variant that forgets to register the new request
PendingAfterStartForgotten(fullUrl, fetch) == pendingRequests

\* fetchFromBackend, lines 317-320: this.pendingRequests.set(fullUrl, ...)
PendingAfterStart(fullUrl, fetch) ==
    [pendingRequests EXCEPT ![fullUrl] = fetch]

\* fetchFromBackend: its effect on the CacheManager, lines 275-320
StartOrJoin(fullUrl, o) ==
    IF o.kind = "started"
    THEN /\ nUpstream < MaxUpstream
         /\ nUpstream' = nUpstream + 1
         /\ upstream' = upstream \cup {[id |-> o.fetch, key |-> fullUrl]}
         /\ pendingRequests' = PendingAfterStart(fullUrl, o.fetch)
    ELSE UNCHANGED <<nUpstream, upstream, pendingRequests>>

(***************************************************************************)
(* CacheManager: getOrFetch.                                               *)
(***************************************************************************)
IdleClient == [st |-> "idle", key |-> "", fetch |-> 0, deadline |-> 0,
               entry |-> NoEntry, fromCache |-> FALSE, cause |-> "none"]

\* getOrFetch has returned { entry, fromCache }
Returned(fullUrl, fetch, entry, fromCache, cause) ==
    [st |-> "returned", key |-> fullUrl, fetch |-> fetch, deadline |-> 0,
     entry |-> entry, fromCache |-> fromCache, cause |-> cause]

\* getOrFetch has thrown
Threw(fullUrl, fetch, cause) ==
    [st |-> "threw", key |-> fullUrl, fetch |-> fetch, deadline |-> 0,
     entry |-> NoEntry, fromCache |-> FALSE, cause |-> cause]

\* a variant that falls back on an entry only while it is within its TTL
StaleCacheOnErrorValidOnly(fullUrl) ==
    IF cache[CacheKey(fullUrl)] # NoEntry /\ isCacheValid(cache[CacheKey(fullUrl)])
    THEN cache[CacheKey(fullUrl)] ELSE NoEntry

\* getOrFetch, line 358: this.cache.get(fullUrl) in the catch block
StaleCacheOnError(fullUrl) == cache[CacheKey(fullUrl)]

\* a variant that falls back on an entry only while it is within its TTL
StaleCacheOnTimeoutValidOnly(fullUrl) ==
    IF cache[CacheKey(fullUrl)] # NoEntry /\ isCacheValid(cache[CacheKey(fullUrl)])
    THEN cache[CacheKey(fullUrl)] ELSE NoEntry

\* getOrFetch, line 343: this.cache.get(fullUrl) after the slow timeout
StaleCacheOnTimeout(fullUrl) == cache[CacheKey(fullUrl)]

\* getOrFetch, lines 356-364: the catch block
OnFetchError(fullUrl, fetch, cause) ==
    LET staleCache == StaleCacheOnError(fullUrl)
    IN  IF staleCache # NoEntry
        THEN Returned(fullUrl, fetch, staleCache, TRUE, cause)
        ELSE Threw(fullUrl, fetch, cause)

\* getOrFetch after a call of fetchFromBackend that handed it o: either the
\* call is over, or it awaits the promise (awaiting is "racing" at line 336,
\* "waiting" at line 351)
ClientAfterFetchCall(fullUrl, o, awaiting) ==
    CASE o.kind = "BackoffError" -> OnFetchError(fullUrl, 0, "BackoffError")
      [] o.kind = "cached" -> Returned(fullUrl, 0, o.entry, FALSE, "cached")
      [] OTHER ->
            [st |-> awaiting, key |-> fullUrl, fetch |-> o.fetch,
             deadline |-> IF awaiting = "racing"
                          THEN now + Config.cache.slowRequestTimeout ELSE 0,
             entry |-> NoEntry, fromCache |-> FALSE, cause |-> "none"]

\* get, line 192
GetHit(fullUrl) == cache[CacheKey(fullUrl)] # NoEntry /\ isCacheValid(cache[CacheKey(fullUrl)])

\* a variant in which a lookup drops the entry it finds expired
CacheAfterLookupExpiredDropped(fullUrl) ==
    IF cache[CacheKey(fullUrl)] # NoEntry /\ ~isCacheValid(cache[CacheKey(fullUrl)])
    THEN [cache EXCEPT ![CacheKey(fullUrl)] = NoEntry]
    ELSE cache

\* get, lines 188-210: a lookup writes nothing to the cache map, an expired
\* entry stays where it is
CacheAfterLookup(fullUrl) == cache

\* a variant that queues an update whenever the entry is stale
ShouldQueueStaleUpdateAlways(fullUrl) ==
    isCacheStale(cache[CacheKey(fullUrl)])

\* get, line 194
ShouldQueueStaleUpdate(fullUrl) ==
    isCacheStale(cache[CacheKey(fullUrl)]) /\ fullUrl \notin staleUpdateQueue

\* getOrFetch(fullUrl) called by client c, up to its first await that suspends:
\* get (lines 189-210, with queueStaleUpdate line 224), then fetchFromBackend
GetOrFetchWith(Outcome(_), c, fullUrl) ==
    /\ clients[c].st \in {"idle", "returned", "threw"}
    /\ nCalls' = nCalls + 1
    /\ IF GetHit(fullUrl)
       THEN /\ cacheStats' = [cacheStats EXCEPT ![fullUrl].hits = @ + 1]
            /\ staleLookups' = IF isCacheStale(cache[CacheKey(fullUrl)])
                               THEN [staleLookups EXCEPT ![fullUrl] = @ + 1]
                               ELSE staleLookups
            /\ IF ShouldQueueStaleUpdate(fullUrl)
               THEN /\ staleUpdateQueue' = staleUpdateQueue \cup {fullUrl}
                    /\ staleScheduled' = [staleScheduled EXCEPT ![fullUrl] = @ + 1]
                    /\ refreshesOfEntry' =
                           [refreshesOfEntry EXCEPT ![fullUrl] = @ + 1]
               ELSE UNCHANGED <<staleUpdateQueue, staleScheduled, refreshesOfEntry>>
            /\ clients' = [clients EXCEPT ![c] =
                              Returned(fullUrl, 0, cache[CacheKey(fullUrl)], TRUE, "hit")]
            /\ UNCHANGED <<nUpstream, upstream, pendingRequests>>
       ELSE /\ cacheStats' = [cacheStats EXCEPT ![fullUrl].misses = @ + 1]
            /\ UNCHANGED <<staleUpdateQueue, staleScheduled, refreshesOfEntry,
                           staleLookups>>
            /\ LET o == Outcome(fullUrl)
               IN  /\ StartOrJoin(fullUrl, o)
                   /\ clients' = [clients EXCEPT ![c] =
                                     ClientAfterFetchCall(fullUrl, o, "racing")]
    /\ cache' = CacheAfterLookup(fullUrl)
    /\ UNCHANGED <<now, ticks, cmVars, valVars, pollVars, serverVars, cacheBackoffStates, cacheErrorEvents,
                   staleWaiting, warmed, notified>>

GetOrFetch(c, fullUrl) == GetOrFetchWith(FetchOutcome, c, fullUrl)

\* getOrFetch(path, fullUrl) of src/src/cache.ts, lines 295-335, for a URL
\* that is its own path: the same code over the older fetchFromBackend
GetOrFetchOlder(c, path) == GetOrFetchWith(FetchOutcomeOlder, c, path)

\* a variant in which the slow timeout cancels the upstream call of the caller
UpstreamAfterTimeoutCancelled(c) ==
    {f \in upstream : f.id # clients[c].fetch}

\* getOrFetch, lines 336-347: the promise that lost the race is dropped, not
\* aborted; the upstream calls are what they were
UpstreamAfterTimeout(c) == upstream

\* the slow-request timer of client c fires before its fetch has settled,
\* getOrFetch lines 341-353
TimerFire(c) ==
    /\ clients[c].st = "racing"
    /\ now >= clients[c].deadline
    /\ LET fullUrl == clients[c].key
           staleCache == StaleCacheOnTimeout(fullUrl)
       IN  IF staleCache # NoEntry
           THEN /\ clients' = [clients EXCEPT ![c] =
                       Returned(fullUrl, clients[c].fetch, staleCache, TRUE,
                                "timeout")]
                /\ upstream' = UpstreamAfterTimeout(c)
                /\ UNCHANGED <<nUpstream, pendingRequests>>
           ELSE LET o == FetchOutcome(fullUrl)
                IN  /\ StartOrJoin(fullUrl, o)
                    /\ clients' = [clients EXCEPT ![c] =
                                      ClientAfterFetchCall(fullUrl, o, "waiting")]
    /\ UNCHANGED <<now, ticks, cmVars, valVars, pollVars, serverVars, cache, staleUpdateQueue, cacheStats,
                   cacheBackoffStates, cacheErrorEvents, nCalls, staleScheduled,
                   staleWaiting, refreshesOfEntry, staleLookups, warmed, notified>>

\* Clients are interchangeable: a new call is given to the free client with the
\* least number.
FreeClient(c) ==
    /\ clients[c].st \in {"idle", "returned", "threw"}
    /\ \A d \in Clients :
          d < c => clients[d].st \in {"racing", "waiting", "forwarding"}

\* the clients awaiting the promise of upstream call f
Attached(f) ==
    {c \in Clients : clients[c].st \in {"racing", "waiting"} /\ clients[c].fetch = f.id}

\* a variant that evicts the entry of a URL whose fetch failed
CacheAfterFailureEvicted(fullUrl) ==
    [cache EXCEPT ![CacheKey(fullUrl)] = NoEntry]

\* fetchFromBackend, the catch and finally blocks, lines 304-314: the cache map
\* is not touched
CacheAfterFailure(fullUrl) == cache

\* the requests with a method other than GET that await the promise of
\* upstream call f (server.ts line 130)
Forwarding(f) ==
    {c \in Clients : clients[c].st = "forwarding" /\ clients[c].fetch = f.id}

\* The proxy handler for a request of client c whose method is not GET,
\* server.ts lines 128-138, up to its await: the request is handed to
\* fetchFromBackend(fullUrl). The client remembers in cause whether the call
\* started the upstream call or joined a pending one.
NonGetRequest(c, fullUrl) ==
    /\ clients[c].st \in {"idle", "returned", "threw"}
    /\ nCalls' = nCalls + 1
    /\ LET o == FetchOutcome(fullUrl)
       IN  /\ StartOrJoin(fullUrl, o)
           /\ clients' = [clients EXCEPT ![c] =
                 CASE o.kind = "BackoffError" ->
                          Threw(fullUrl, 0, "forward BackoffError")
                   [] o.kind = "cached" ->
                          Returned(fullUrl, 0, o.entry, FALSE, "forward cached")
                   [] OTHER ->
                          [st |-> "forwarding", key |-> fullUrl,
                           fetch |-> o.fetch, deadline |-> 0, entry |-> NoEntry,
                           fromCache |-> FALSE, cause |-> o.kind]]
    /\ UNCHANGED <<now, ticks, cmVars, valVars, pollVars, serverVars, cache, staleUpdateQueue, cacheStats,
                   cacheBackoffStates, cacheErrorEvents, staleScheduled,
                   staleWaiting, refreshesOfEntry, staleLookups, warmed, notified>>

\* a variant that stores the response only while a caller still awaits it
CacheAfterSuccessIfAwaited(f, entry) ==
    IF Attached(f) # {} THEN [cache EXCEPT ![CacheKey(f.key)] = entry] ELSE cache

\* fetchFromBackend, line 298: this.cache.set(fullUrl, entry), before
\* notifyResponse at line 302
CacheAfterSuccess(f, entry) == [cache EXCEPT ![CacheKey(f.key)] = entry]

\* a variant that leaves the settled request in the pending map
PendingAfterSettleKept(f) == pendingRequests

\* fetchFromBackend, lines 312-314: finally, this.pendingRequests.delete(fullUrl)
PendingAfterSettle(f) ==
    [pendingRequests EXCEPT ![f.key] = 0]

\* a variant that leaves the set only when the refresh has succeeded
StaleQueueAfterSettleOnSuccess(f, success) ==
    IF staleWaiting[f.key] > 0 /\ success
    THEN staleUpdateQueue \ {f.key}
    ELSE staleUpdateQueue

\* queueStaleUpdate, lines 228-234: the callback that awaited the request
\* resumes, in try or in catch, and its finally block deletes the key
StaleQueueAfterSettle(f, success) ==
    IF staleWaiting[f.key] > 0
    THEN staleUpdateQueue \ {f.key}
    ELSE staleUpdateQueue

\* The upstream call f settles (fetchFromBackend lines 277-314), and with it
\* everything that awaits its promise: the getOrFetch calls and the stale
\* update (queueStaleUpdate lines 230-234).
UpstreamSettle(f, success) ==
    /\ f \in upstream
    /\ upstream' = upstream \ {f}
    /\ pendingRequests' = PendingAfterSettle(f)
    /\ IF success
       THEN LET entry == [data |-> ResponseData(f.id, f.key), timestamp |-> now,
                          ttl |-> getCacheTTL(f.key),
                          staleTime |-> getStaleTime(f.key)]
            IN  /\ cache' = CacheAfterSuccess(f, entry)
                /\ cacheBackoffStates' = cacheRecordSuccess(f.key)
                /\ cacheErrorEvents' = cacheErrorEvents
                /\ notified' = notified \cup {f.id}
                /\ refreshesOfEntry' = [refreshesOfEntry EXCEPT ![f.key] = 0]
                /\ staleLookups' = [staleLookups EXCEPT ![f.key] = 0]
                /\ clients' = [c \in Clients |->
                                  IF c \in Attached(f)
                                  THEN Returned(f.key, f.id, entry, FALSE, "fetched")
                                  ELSE IF c \in Forwarding(f)
                                  THEN Returned(f.key, f.id, entry, FALSE,
                                                "forwarded")
                                  ELSE clients[c]]
       ELSE /\ cacheErrorEvents' = cacheRecordErrorEvents(f.key)
            /\ cacheBackoffStates' = cacheRecordError(f.key)
            /\ clients' = [c \in Clients |->
                              IF c \in Attached(f)
                              THEN OnFetchError(f.key, f.id, "failed")
                              ELSE IF c \in Forwarding(f)
                              THEN Threw(f.key, f.id, "forward failed")
                              ELSE clients[c]]
            /\ cache' = CacheAfterFailure(f.key)
            /\ UNCHANGED <<notified, refreshesOfEntry, staleLookups>>
    /\ staleWaiting' = [staleWaiting EXCEPT ![f.key] = 0]
    /\ staleUpdateQueue' = StaleQueueAfterSettle(f, success)
    /\ UNCHANGED <<now, ticks, cmVars, valVars, pollVars, serverVars, cacheStats, nUpstream, nCalls, staleScheduled,
                   warmed>>

\* the setImmediate callback of queueStaleUpdate, lines 227-235
RunStaleUpdate(fullUrl) ==
    /\ staleScheduled[fullUrl] > 0
    /\ staleScheduled' = [staleScheduled EXCEPT ![fullUrl] = @ - 1]
    /\ LET o == FetchOutcome(fullUrl)
       IN  /\ StartOrJoin(fullUrl, o)
           /\ IF o.kind \in {"BackoffError", "cached"}
              THEN /\ staleUpdateQueue' = staleUpdateQueue \ {fullUrl}
                   /\ UNCHANGED staleWaiting
              ELSE /\ staleWaiting' = [staleWaiting EXCEPT ![fullUrl] = @ + 1]
                   /\ UNCHANGED staleUpdateQueue
    /\ UNCHANGED <<now, ticks, cmVars, valVars, pollVars, serverVars, cache, cacheStats, cacheBackoffStates,
                   cacheErrorEvents, clients, nCalls, refreshesOfEntry, staleLookups, warmed,
                   notified>>

\* a variant that resets the statistics and the backoff bookkeeping as well
ClearCacheAndStatistics ==
    /\ cache' = [k \in CacheKeys |-> NoEntry]
    /\ refreshesOfEntry' = [k \in CacheKeys |-> 0]
    /\ staleLookups' = [k \in CacheKeys |-> 0]
    /\ cacheStats' = [k \in CacheKeys |-> [hits |-> 0, misses |-> 0]]
    /\ cacheBackoffStates' = [k \in CacheKeys |-> NoBackoff]
    /\ cacheErrorEvents' = <<>>
    /\ UNCHANGED <<now, ticks, cmVars, valVars, pollVars, serverVars, pendingRequests,
                   staleUpdateQueue, upstream, nUpstream, clients, nCalls,
                   staleScheduled, staleWaiting, warmed, notified>>

\* clearCache, part_002 lines 367-369 (POST /cache/clear, server.ts 101-104)
ClearCache ==
    /\ cache' = [k \in CacheKeys |-> NoEntry]
    /\ refreshesOfEntry' = [k \in CacheKeys |-> 0]
    /\ staleLookups' = [k \in CacheKeys |-> 0]
    /\ UNCHANGED <<now, ticks, cmVars, valVars, pollVars, serverVars, pendingRequests, staleUpdateQueue, cacheStats,
                   cacheBackoffStates, cacheErrorEvents, upstream, nUpstream, clients,
                   nCalls, staleScheduled, staleWaiting, warmed, notified>>

(***************************************************************************)
(* PollingScheduler (part_005).                                            *)
(***************************************************************************)
\* poll(path), one tick of the interval timer of path
Poll(path) ==
    /\ path \in PolledPaths
    /\ IF cacheIsInBackoff(path)
       THEN UNCHANGED <<nUpstream, upstream, pendingRequests>>
       ELSE StartOrJoin(path, FetchOutcome(path))
    /\ UNCHANGED <<now, ticks, cmVars, valVars, pollVars, serverVars, cache, staleUpdateQueue, cacheStats,
                   cacheBackoffStates, cacheErrorEvents, clients, nCalls,
                   staleScheduled, staleWaiting, refreshesOfEntry, staleLookups, warmed, notified>>

\* warmCache: fetchFromBackend for every polled path, one after the other in
\* the same turn of the event loop
RECURSIVE WarmAll(_, _)
WarmAll(paths, acc) ==
    IF paths = {} THEN acc
    ELSE LET path == CHOOSE q \in paths : TRUE
             start == ~cacheIsInBackoff(path) /\ acc.pending[path] = 0
         IN  WarmAll(paths \ {path},
                     IF start
                     THEN [n |-> acc.n + 1,
                           upstream |-> acc.upstream \cup
                                        {[id |-> acc.n + 1, key |-> path]},
                           pending |-> [acc.pending EXCEPT ![path] = acc.n + 1]]
                     ELSE acc)

WarmCache ==
    /\ ~warmed
    /\ warmed' = TRUE
    /\ LET w == WarmAll(PolledPaths, [n |-> nUpstream, upstream |-> upstream,
                                      pending |-> pendingRequests])
       IN  /\ w.n <= MaxUpstream
           /\ nUpstream' = w.n
           /\ upstream' = w.upstream
           /\ pendingRequests' = w.pending
    /\ UNCHANGED <<now, ticks, cmVars, valVars, pollVars, serverVars, cache, staleUpdateQueue, cacheStats,
                   cacheBackoffStates, cacheErrorEvents, clients, nCalls,
                   staleScheduled, staleWaiting, refreshesOfEntry, staleLookups,
                   notified>>

\* a clock step of SpecCE; the setImmediate callbacks that are due run in the
\* current turn of the event loop, before any timer advances
CacheTick ==
    /\ ticks < MaxCacheTicks
    /\ \A k \in CacheKeys : staleScheduled[k] = 0
    /\ ticks' = ticks + 1
    /\ now' = now + CacheTickMs
    /\ UNCHANGED <<cmVars, ceVars>>

\* the CacheManager after construction
InitCacheManager ==
    /\ cache = [k \in CacheKeys |-> NoEntry]
    /\ pendingRequests = [k \in CacheKeys |-> 0]
    /\ staleUpdateQueue = {}
    /\ cacheStats = [k \in CacheKeys |-> [hits |-> 0, misses |-> 0]]
    /\ cacheBackoffStates = [k \in CacheKeys |-> NoBackoff]
    /\ cacheErrorEvents = <<>>
    /\ upstream = {}
    /\ nUpstream = 0
    /\ clients = [c \in Clients |-> IdleClient]
    /\ nCalls = 0
    /\ staleScheduled = [k \in CacheKeys |-> 0]
    /\ staleWaiting = [k \in CacheKeys |-> 0]
    /\ refreshesOfEntry = [k \in CacheKeys |-> 0]
    /\ staleLookups = [k \in CacheKeys |-> 0]
    /\ warmed = FALSE
    /\ notified = {}

(***************************************************************************)
(* ResponseValidator (responseValidator.ts).  A payload is a JavaScript    *)
(* value: kind is what it is, text its characters when it is a string.     *)
(***************************************************************************)
MIN_CSV_COMMAS == 4

Chars(kind, text) == [kind |-> kind, text |-> text]

NullPayload == Chars("null", <<>>)
ObjectPayload == Chars("object", <<>>)
NumberPayload == Chars("number", <<>>)
NullString == Chars("string", <<"n", "u", "l", "l">>)
ShortCsv == Chars("string", <<"a", ",", "b", ",", "c", ",", "d">>)
LongCsv == Chars("string", <<"a", ",", "b", ",", "c", ",", "d", ",", "e">>)

Payloads == {NullPayload, ObjectPayload, NumberPayload, NullString, ShortCsv, LongCsv}

\* the cache holds no entry
NoPayload == Chars("none", <<>>)

\* further payloads: undefined, an array, a boolean, the empty string, a
\* string with more than 4 commas
UndefinedPayload == Chars("undefined", <<>>)
ArrayPayload == Chars("array", <<>>)
BooleanPayload == Chars("boolean", <<>>)
EmptyString == Chars("string", <<>>)
LongerCsv == Chars("string", <<",", ",", ",", ",", ",">>)

AllPayloads ==
    Payloads \cup {UndefinedPayload, ArrayPayload, BooleanPayload, EmptyString,
                   LongerCsv}

\* typeof data: null and arrays are objects
TypeOf(data) == IF data.kind \in {"null", "array"} THEN "object" ELSE data.kind

\* (data.match(/,/g) || []).length
CommaCount(data) == Len(SelectSeq(data.text, LAMBDA ch : ch = ","))

jsonEndpoints == {"/aggregates", "/soe", "/strings", "/freq", "/fans/pw", "/version"}

\* a variant without the test for null
validateJsonEndpointNoNullTest(path, data) ==
    IF TypeOf(data) = "string" /\ data.text = <<"n", "u", "l", "l">> THEN FALSE
    ELSE IF TypeOf(data) # "object" THEN FALSE
    ELSE TRUE

validateJsonEndpoint(path, data) ==
    IF data.kind \in {"null", "undefined"} THEN FALSE
    ELSE IF TypeOf(data) = "string" /\ data.text = <<"n", "u", "l", "l">> THEN FALSE
    ELSE IF TypeOf(data) # "object" THEN FALSE
    ELSE TRUE

\* a variant that asks for more than MIN_CSV_COMMAS commas
validateCsvEndpointStrict(path, data) ==
    IF TypeOf(data) # "string" THEN FALSE
    ELSE IF CommaCount(data) <= MIN_CSV_COMMAS THEN FALSE
    ELSE TRUE

validateCsvEndpoint(path, data) ==
    IF TypeOf(data) # "string" THEN FALSE
    ELSE IF CommaCount(data) < MIN_CSV_COMMAS THEN FALSE
    ELSE TRUE

validate(path, data) ==
    IF path \in jsonEndpoints THEN validateJsonEndpoint(path, data)
    ELSE IF path = "/csv/v2" THEN validateCsvEndpoint(path, data)
    ELSE TRUE

(***************************************************************************)
(* The CacheManager that fetches through the ConnectionManager and         *)
(* validates a response before it stores it (spec.md 4.1: fetchFromBackend *)
(* and Validation).  One pending fetch per URL; its callers await it.      *)
(***************************************************************************)
\* a validated JSON endpoint, the validated CSV endpoint, an endpoint that is
\* not validated
ValUrls == {"/aggregates", "/csv/v2", "/a"}

NothingDelivered == [fullUrl |-> "", waiters |-> 0, result |-> "none", cause |-> "none"]

Delivered(fullUrl, waiters, result, cause) ==
    [fullUrl |-> fullUrl, waiters |-> waiters, result |-> result, cause |-> cause]

\* fetchFromBackend(fullUrl): join the pending fetch of the URL, or create one
\* and dispatch it through ConnectionManager.fetch
ValRequest(fullUrl) ==
    /\ IF valPending[fullUrl] > 0
       THEN /\ valPending' = [valPending EXCEPT ![fullUrl] = @ + 1]
            /\ UNCHANGED <<cmVars, valDelivered>>
       ELSE /\ FetchCM(fullUrl)
            /\ IF isInBackoff(fullUrl)
               THEN /\ valDelivered' = Delivered(fullUrl, 1, "failure", "BackoffError")
                    /\ UNCHANGED valPending
               ELSE /\ valPending' = [valPending EXCEPT ![fullUrl] = 1]
                    /\ UNCHANGED valDelivered
    /\ UNCHANGED <<now, ticks, p2Vars, pollVars, serverVars, valCache, valNotified, validated>>

\* The upstream call of r ends with outcome and, when it is a response, with
\* the payload data: executeRequest settles the fetch, and fetchFromBackend
\* validates, stores and notifies, or fails, for all the callers of the fetch.
ValRespond(r, outcome, data) ==
    /\ SettleCM(r, AxiosResolves(outcome))
    /\ LET fullUrl == r.fullUrl
           waiters == valPending[fullUrl]
       IN  /\ valPending' = [valPending EXCEPT ![fullUrl] = 0]
           /\ IF ~AxiosResolves(outcome)
              THEN /\ valDelivered' = Delivered(fullUrl, waiters, "failure", "upstream")
                   /\ UNCHANGED <<valCache, valNotified>>
              ELSE IF validate(fullUrl, data)
              THEN /\ valCache' = [valCache EXCEPT ![fullUrl] = data]
                   /\ valNotified' = valNotified + 1
                   /\ valDelivered' = Delivered(fullUrl, waiters, "entry", "none")
              ELSE /\ valDelivered' = Delivered(fullUrl, waiters, "failure", "validation")
                   /\ UNCHANGED <<valCache, valNotified>>
    /\ UNCHANGED <<now, ticks, p2Vars, pollVars, serverVars, validated>>

\* no call of validate yet
NotValidated == [path |-> "", data |-> NoPayload, result |-> TRUE]

\* a call of ResponseValidator.validate(path, data) and what it returns
Validate(path, data) ==
    /\ validated' = [path |-> path, data |-> data, result |-> validate(path, data)]
    /\ UNCHANGED <<now, ticks, cmVars, p2Vars, pollVars, serverVars, valCache, valPending,
                   valDelivered, valNotified>>

InitValidation ==
    /\ validated = NotValidated
    /\ valCache = [u \in ValUrls |-> NoPayload]
    /\ valPending = [u \in ValUrls |-> 0]
    /\ valDelivered = NothingDelivered
    /\ valNotified = 0

(***************************************************************************)
(* ConfigLoader.load (types.ts) and the PollingScheduler (part_005) at      *)
(* startup. The optional fields of a urlConfig are Omitted or Set(v). What  *)
(* fetchFromBackend does with a path is the CacheManager's part (WarmCache, *)
(* Poll); here the paths handed to it are recorded.                        *)
(***************************************************************************)
UrlConfig(path, pollInterval, cacheTTL, staleTime) ==
    [path |-> path, pollInterval |-> pollInterval, cacheTTL |-> cacheTTL,
     staleTime |-> staleTime]

\* ConfigLoader.load, types.ts lines 210-250
defaultUrlConfigs ==
    {UrlConfig("/aggregates", Set(5), Set(30), Set(5)),
     UrlConfig("/soe", Set(30), Set(60), Set(25)),
     UrlConfig("/strings", Set(5), Set(30), Set(5)),
     UrlConfig("/freq", Set(5), Set(30), Set(20)),
     UrlConfig("/csv/v2", Set(10), Set(60), Set(60)),
     UrlConfig("/version", Omitted, Set(600), Set(300)),
     UrlConfig("/alerts/pw", Omitted, Set(60), Set(45))}

\* a ?? b
Coalesce(a, b) == IF IsSet(a) THEN a ELSE Set(b)

\* { ...a, ...b }: the fields b sets replace those of a
Spread(a, b) ==
    UrlConfig(b.path,
              IF IsSet(b.pollInterval) THEN b.pollInterval ELSE a.pollInterval,
              IF IsSet(b.cacheTTL) THEN b.cacheTTL ELSE a.cacheTTL,
              IF IsSet(b.staleTime) THEN b.staleTime ELSE a.staleTime)

\* ConfigLoader.load, types.ts lines 252-283: the declared urlConfigs are
\* merged into the defaults
MergeUrlConfigs(custom) ==
    {IF \E c \in custom : c.path = d.path
     THEN Spread(d, CHOOSE c \in custom : c.path = d.path)
     ELSE d : d \in defaultUrlConfigs}
    \cup {UrlConfig(c.path, Coalesce(c.pollInterval, 5), Coalesce(c.cacheTTL, 30),
                     Coalesce(c.staleTime, 10)) :
              c \in {e \in custom : \A d \in defaultUrlConfigs : d.path # e.path}}

\* the paths of the loaded configuration that are polled
PathsToWarm == {c.path : c \in {d \in urlConfigs : ShouldPoll(d)}}

\* ConfigLoader.load(), index.ts line 7
LoadConfig ==
    /\ schedulerPhase = "unloaded"
    /\ urlConfigs' = MergeUrlConfigs(configFile)
    /\ schedulerPhase' = "loaded"
    /\ UNCHANGED <<now, ticks, cmVars, p2Vars, valVars, serverVars, loadedEntries,
                   configFile, intervals,
                   timers, warmRequests, pollRequests>>

\* PollingScheduler.warmCache, part_005 lines 13-41 (server.ts line 258)
SchedulerWarmCache ==
    /\ schedulerPhase = "loaded"
    /\ warmRequests' = PathsToWarm
    /\ schedulerPhase' = "warmed"
    /\ UNCHANGED <<now, ticks, cmVars, p2Vars, valVars, serverVars, loadedEntries,
                   configFile, urlConfigs,
                   intervals, timers, pollRequests>>

\* the handle setInterval returns next: the timers of one call of start()
\* share a number, so path and handle together name a timer
NextHandle ==
    IF timers = {} THEN 1
    ELSE 1 + (CHOOSE h \in {t.handle : t \in timers} :
                  \A t \in timers : t.handle <= h)

\* PollingScheduler.start with schedulePolling, part_005 lines 43-66
\* (server.ts line 261): a timer is set for every polled path and its handle
\* is put into the map, in the place of the handle the map held for the path
\* start, lines 43-55, and schedulePolling, lines 57-66: a timer for every
\* UrlConfig with a positive pollInterval
NewTimers ==
    {[path |-> d.path, seconds |-> ValueOf(d.pollInterval), handle |-> NextHandle] :
        d \in {e \in urlConfigs : ShouldPoll(e)}}

\* schedulePolling, line 65: this.intervals.set(path, interval)
IntervalsAfterStart ==
    {t \in intervals : \A u \in NewTimers : u.path # t.path} \cup NewTimers

SchedulerStart ==
    /\ schedulerPhase \in {"warmed", "started", "stopped"}
    /\ NextHandle <= MaxStarts
    /\ timers' = timers \cup NewTimers
    /\ intervals' = IntervalsAfterStart
    /\ schedulerPhase' = "started"
    /\ UNCHANGED <<now, ticks, cmVars, p2Vars, valVars, serverVars, loadedEntries,
                   configFile, urlConfigs,
                   warmRequests, pollRequests>>

\* the timer t fires: poll(path), part_005 lines 62-64
PollTimer(t) ==
    /\ t \in timers
    /\ pollRequests' = pollRequests \cup {t.path}
    /\ UNCHANGED <<now, ticks, cmVars, p2Vars, valVars, serverVars, loadedEntries,
                   configFile, urlConfigs,
                   schedulerPhase, intervals, timers, warmRequests>>

\* PollingScheduler.stop, part_005 lines 84-91: clearInterval for every handle
\* in the map, then the map is cleared
SchedulerStop ==
    /\ schedulerPhase \in {"started", "stopped"}
    /\ timers' = timers \ intervals
    /\ intervals' = {}
    /\ schedulerPhase' = "stopped"
    /\ UNCHANGED <<now, ticks, cmVars, p2Vars, valVars, serverVars, loadedEntries,
                   configFile, urlConfigs,
                   warmRequests, pollRequests>>

\* ConfigLoader.load, types.ts lines 175-181: the cache section a config.json
\* without one is given
defaultCacheConfig ==
    [defaultTTL |-> 300, defaultStaleTime |-> 60, slowRequestTimeout |-> 5000]

\* getUrlConfig over the loaded configuration, part_002 lines 30-32 and 38-40
LoadedUrlConfig(path) == {c \in urlConfigs : c.path = path}

\* getCacheTTL over the loaded configuration, part_002 lines 42-48
LoadedCacheTTL(path) ==
    IF \E c \in LoadedUrlConfig(path) : IsSet(c.cacheTTL)
    THEN ValueOf((CHOOSE c \in LoadedUrlConfig(path) : TRUE).cacheTTL) * 1000
    ELSE defaultCacheConfig.defaultTTL * 1000

\* getStaleTime over the loaded configuration, part_002 lines 50-56
LoadedStaleTime(path) ==
    IF \E c \in LoadedUrlConfig(path) : IsSet(c.staleTime)
    THEN ValueOf((CHOOSE c \in LoadedUrlConfig(path) : TRUE).staleTime) * 1000
    ELSE defaultCacheConfig.defaultStaleTime * 1000

\* fetchFromBackend, part_002 lines 287-298: a response for path is stored,
\* with the ttl and the staleTime the loaded configuration gives
StoreLoadedEntry(path) ==
    /\ schedulerPhase # "unloaded"
    /\ loadedEntries' = loadedEntries \cup
           {[path |-> path, ttl |-> LoadedCacheTTL(path),
             staleTime |-> LoadedStaleTime(path)]}
    /\ UNCHANGED <<now, ticks, cmVars, p2Vars, valVars, serverVars, configFile, urlConfigs,
                   schedulerPhase, intervals, timers, warmRequests, pollRequests>>

\* before ConfigLoader.load(): the declared urlConfigs are one of files
InitScheduler(files) ==
    /\ configFile \in files
    /\ urlConfigs = {}
    /\ schedulerPhase = "unloaded"
    /\ intervals = {}
    /\ timers = {}
    /\ warmRequests = {}
    /\ pollRequests = {}
    /\ loadedEntries = {}

(***************************************************************************)
(* The proxy handler of server.ts: its answer to a GET.                    *)
(***************************************************************************)
\* what getOrFetch can throw: the BackoffError of fetchFromBackend, or the
\* error axios.get rejected with. axios names a refused connection
\* ECONNREFUSED, a failed DNS lookup ENOTFOUND, a connect that timed out
\* ETIMEDOUT, a request that exceeded its timeout option (part_002 line 277)
\* ECONNABORTED, a 5xx response ERR_BAD_RESPONSE and a reset connection
\* ECONNRESET.
ErrorOf(kind, code) == [kind |-> kind, code |-> code]

TheBackoffError == ErrorOf("BackoffError", "none")

UpstreamErrors ==
    {ErrorOf("connection refused", "ECONNREFUSED"),
     ErrorOf("DNS failure", "ENOTFOUND"),
     ErrorOf("timeout", "ETIMEDOUT"),
     ErrorOf("timeout", "ECONNABORTED"),
     ErrorOf("5xx", "ERR_BAD_RESPONSE"),
     ErrorOf("connection reset", "ECONNRESET")}

Errors == {TheBackoffError} \cup UpstreamErrors

\* the catch block of the proxy handler, server.ts lines 168-186
ErrorStatus(error) ==
    IF \/ error = TheBackoffError
       \/ error.code = "ECONNREFUSED"
       \/ error.code = "ENOTFOUND"
       \/ error.code = "ETIMEDOUT"
    THEN 503
    ELSE 500

NoAnswer == [key |-> "", error |-> ErrorOf("none", "none"), status |-> 0]

\* the proxy handler answers the GET of client c whose getOrFetch has thrown
\* error (server.ts lines 141 and 168-186): error is the BackoffError when
\* fetchFromBackend rejected the call for backoff, and otherwise what the
\* upstream call failed with
ProxyAnswer(c, error) ==
    /\ clients[c].st = "threw"
    /\ clients[c].cause \in {"BackoffError", "failed"}
    /\ (clients[c].cause = "BackoffError") <=> (error = TheBackoffError)
    /\ answered' = [key |-> clients[c].key, error |-> error,
                    status |-> ErrorStatus(error)]
    /\ clients' = [clients EXCEPT ![c] = IdleClient]
    /\ UNCHANGED <<now, ticks, cmVars, valVars, pollVars, cache, pendingRequests,
                   staleUpdateQueue, cacheStats, cacheBackoffStates,
                   cacheErrorEvents, upstream, nUpstream, nCalls, staleScheduled,
                   staleWaiting, refreshesOfEntry, staleLookups, warmed, notified,
                   errorStats, lifecycle>>

\* a rate per minute over the window, as the quotient count / ERROR_WINDOW_MINUTES
Rate(count) == <<count, ERROR_WINDOW_MINUTES>>

NoErrorStats == [errorRate |-> Rate(0 - 1), errorRateByPath |-> <<>>]

\* a variant that counts every event still held, whatever its age
RecentErrorsHeld == errorEvents

\* getErrorStats, lines 150-153: the events of the last ten minutes
RecentErrors ==
    SelectSeq(errorEvents, LAMBDA event : now - event.timestamp < ERROR_WINDOW_MS)

\* getErrorStats, lines 155-169: the overall rate, and a rate for each path
\* that has a recent event
ErrorStatsOf(recentErrors) ==
    LET errorCounts(path) ==
            Len(SelectSeq(recentErrors, LAMBDA event : event.path = path))
        paths == {recentErrors[i].path : i \in DOMAIN recentErrors}
    IN  [errorRate |-> Rate(Len(recentErrors)),
         errorRateByPath |-> [path \in paths |-> Rate(errorCounts(path))]]

\* getErrorRateStats(), lines 188-190, read by the stats endpoint
GetErrorRateStats ==
    /\ errorStats' = ErrorStatsOf(RecentErrors)
    /\ UNCHANGED <<now, ticks, cmVars, p2Vars, valVars, pollVars, answered,
                   lifecycle>>

\* ProxyServer.start(), server.ts lines 236-258: up to its await of
\* scheduler.warmCache(), which hands the paths to fetchFromBackend
ServerStart ==
    /\ schedulerPhase = "loaded"
    /\ lifecycle.start = "idle"
    /\ lifecycle' = [lifecycle EXCEPT !.start = "warming"]
    /\ warmRequests' = PathsToWarm
    /\ UNCHANGED <<now, ticks, cmVars, p2Vars, valVars, answered, errorStats,
                   configFile, urlConfigs, schedulerPhase, intervals, timers,
                   pollRequests, loadedEntries>>

\* ProxyServer.start(), lines 258-261: warmCache has resolved, and
\* scheduler.start() sets the timers
ServerStartResume ==
    /\ lifecycle.start = "warming"
    /\ NextHandle <= MaxStarts
    /\ lifecycle' = [lifecycle EXCEPT !.start = "done"]
    /\ timers' = timers \cup NewTimers
    /\ intervals' = IntervalsAfterStart
    /\ schedulerPhase' = "started"
    /\ UNCHANGED <<now, ticks, cmVars, p2Vars, valVars, answered, errorStats,
                   configFile, urlConfigs, warmRequests, pollRequests,
                   loadedEntries>>

\* ProxyServer.stop(), lines 263-275: scheduler.stop() clears the timers of
\* the map, then stop awaits pluginManager.shutdown()
ServerStop ==
    /\ schedulerPhase # "unloaded"
    /\ lifecycle.stop = "idle"
    /\ lifecycle' = [lifecycle EXCEPT !.stop = "shutting down"]
    /\ timers' = timers \ intervals
    /\ intervals' = {}
    /\ schedulerPhase' = IF schedulerPhase = "loaded" THEN "loaded" ELSE "stopped"
    /\ UNCHANGED <<now, ticks, cmVars, p2Vars, valVars, answered, errorStats,
                   configFile, urlConfigs, warmRequests, pollRequests,
                   loadedEntries>>

\* ProxyServer.stop(), lines 275-283: the plugins have shut down, stop closes
\* the listener and returns
ServerStopDone ==
    /\ lifecycle.stop = "shutting down"
    /\ lifecycle' = [lifecycle EXCEPT !.stop = "done"]
    /\ UNCHANGED <<now, ticks, cmVars, p2Vars, valVars, pollVars, answered,
                   errorStats>>

InitServer ==
    /\ answered = NoAnswer
    /\ errorStats = NoErrorStats
    /\ lifecycle = [start |-> "idle", stop |-> "idle"]

InitClock ==
    /\ now = 0
    /\ ticks = 0

\* the ConnectionManager after construction; urls are the URLs it will be
\* asked for
InitConnectionManagerFor(urls) ==
    /\ requestQueue = <<>>
    /\ activeRequestCount = 0
    /\ activeUrls = {}
    /\ isProcessingQueue = FALSE
    /\ recentlyCompleted = <<>>
    /\ backoffStates = [u \in urls |-> NoBackoff]
    /\ errorEvents = <<>>
    /\ inFlight = {}
    /\ immediates = 0
    /\ nFetch = 0
    /\ lastFetch = [fullUrl |-> "", outcome |-> "none", retryAfterMs |-> 0,
                    consecutiveErrors |-> 0]
    /\ dispatchOrder = <<>>
    /\ consecutiveFailures = [u \in urls |-> 0]

InitConnectionManager == InitConnectionManagerFor(Urls)

InitCM ==
    /\ InitClock
    /\ maxConcurrentRequests \in 1..MaxConcurrent
    /\ InitConnectionManager
    /\ InitCacheManager
    /\ InitValidation
    /\ InitServer
    /\ InitScheduler({{}})

NextCM ==
    \/ \E u \in Urls : nFetch < MaxFetches /\ Fetch(u)
    \/ \E r \in inFlight : \E outcome \in Outcomes : Respond(r, outcome)
    \/ RunImmediate
    \/ Tick
    \/ \E u \in Urls : WaitForRetry(u)

SpecCM == InitCM /\ [][NextCM]_vars

(***************************************************************************)
(* The ConnectionManager under the scheduling of the event loop: a         *)
(* setImmediate callback that is due runs, and every upstream call settles *)
(* (axios.get has a timeout, line 318). The clock is stepped while a       *)
(* request waits in the queue.                                             *)
(***************************************************************************)
NextQueue ==
    \/ \E u \in Urls : nFetch < MaxFetches /\ Fetch(u)
    \/ \E r \in inFlight : \E success \in BOOLEAN : Settle(r, success)
    \/ RunImmediate
    \/ requestQueue # <<>> /\ Tick

FairQueue ==
    /\ WF_vars(RunImmediate)
    /\ \A id \in 1..MaxFetches :
           WF_vars(\E r \in inFlight : \E success \in BOOLEAN :
                      r.id = id /\ Settle(r, success))

SpecQueue == InitCM /\ [][NextQueue]_vars /\ FairQueue

(***************************************************************************)
(* Specification of the CacheManager with its clients and the scheduler.   *)
(***************************************************************************)
InitCE ==
    /\ InitClock
    /\ maxConcurrentRequests = 2
    /\ InitConnectionManager
    /\ InitCacheManager
    /\ InitValidation
    /\ InitServer
    /\ InitScheduler({{}})

NextCE ==
    \/ \E c \in Clients : \E k \in CacheKeys :
          nCalls < MaxCalls /\ FreeClient(c) /\ GetOrFetch(c, k)
    \/ \E c \in Clients : TimerFire(c)
    \/ \E f \in upstream : \E success \in BOOLEAN : UpstreamSettle(f, success)
    \/ \E k \in CacheKeys : RunStaleUpdate(k)
    \/ \E k \in PolledPaths : Poll(k)
    \/ WarmCache
    \/ ClearCache
    \/ CacheTick

SpecCE == InitCE /\ [][NextCE]_vars

(***************************************************************************)
(* The CacheManager of the revision src/src/cache.ts, for URLs without a   *)
(* query string (there the cache key, the path, is the URL).               *)
(***************************************************************************)
NextOlderCache ==
    \/ \E c \in Clients : \E path \in PolledPaths :
          nCalls < MaxCalls /\ FreeClient(c) /\ GetOrFetchOlder(c, path)
    \/ \E c \in Clients : TimerFire(c)
    \/ \E f \in upstream : \E success \in BOOLEAN : UpstreamSettle(f, success)
    \/ \E path \in PolledPaths : Poll(path)
    \/ CacheTick

SpecOlderCache == InitCE /\ [][NextOlderCache]_vars

(***************************************************************************)
(* The clients and the stale updates alone, under the scheduling of the    *)
(* event loop: a setImmediate callback that is due runs, and every         *)
(* upstream call settles (axios.get has a timeout, part_002 line 277).     *)
(***************************************************************************)
NextRefresh ==
    \/ \E c \in Clients : \E k \in CacheKeys :
          nCalls < MaxCalls /\ FreeClient(c) /\ GetOrFetch(c, k)
    \/ \E c \in Clients : TimerFire(c)
    \/ \E f \in upstream : \E success \in BOOLEAN : UpstreamSettle(f, success)
    \/ \E k \in CacheKeys : RunStaleUpdate(k)
    \/ CacheTick

FairRefresh ==
    /\ \A k \in CacheKeys : WF_vars(RunStaleUpdate(k))
    /\ \A id \in 1..MaxUpstream :
           WF_vars(\E f \in upstream : \E success \in BOOLEAN :
                      f.id = id /\ UpstreamSettle(f, success))

SpecRefresh == InitCE /\ [][NextRefresh]_vars /\ FairRefresh

(***************************************************************************)
(* The proxy server in front of the CacheManager: client requests of any   *)
(* method arrive at the proxy handler.                                     *)
(***************************************************************************)
Methods == {"GET", "POST"}

\* the proxy handler, server.ts lines 120-141
ProxyRequest(c, method, fullUrl) ==
    IF method # "GET"
    THEN NonGetRequest(c, fullUrl)
    ELSE GetOrFetch(c, fullUrl)

NextProxy ==
    \/ \E c \in Clients : \E method \in Methods : \E k \in CacheKeys :
          nCalls < MaxCalls /\ FreeClient(c) /\ ProxyRequest(c, method, k)
    \/ \E c \in Clients : TimerFire(c)
    \/ \E f \in upstream : \E success \in BOOLEAN : UpstreamSettle(f, success)
    \/ \E k \in CacheKeys : RunStaleUpdate(k)
    \/ CacheTick

SpecProxy == InitCE /\ [][NextProxy]_vars

(***************************************************************************)
(* The proxy handler answers the GET requests that getOrFetch has settled. *)
(***************************************************************************)
NextFrontend ==
    \/ NextProxy
    \/ \E c \in Clients : \E error \in Errors : ProxyAnswer(c, error)

SpecFrontend == InitCE /\ [][NextFrontend]_vars

(***************************************************************************)
(* The startup of the proxy: a config.json that declares at most one        *)
(* urlConfig for each of a built-in polled path, a built-in path that is    *)
(* not polled, and a path of its own.                                      *)
(***************************************************************************)
DeclaredPaths == {"/aggregates", "/version", "/x"}

\* nothing declared for path, or one urlConfig
Declarations(path) ==
    {{}} \cup {{UrlConfig(path, pollInterval, cacheTTL, Omitted)} :
                 pollInterval \in {Omitted, Set(0), Set(5)},
                 cacheTTL \in {Omitted, Set(60)}}

ConfigFiles ==
    {a \cup b \cup c : a \in Declarations("/aggregates"),
                       b \in Declarations("/version"),
                       c \in Declarations("/x")}

InitStartup ==
    /\ InitClock
    /\ maxConcurrentRequests = 2
    /\ InitConnectionManager
    /\ InitCacheManager
    /\ InitValidation
    /\ InitServer
    /\ InitScheduler(ConfigFiles)

NextStartup ==
    \/ LoadConfig
    \/ SchedulerWarmCache
    \/ SchedulerStart
    \/ \E t \in timers : PollTimer(t)
    \/ SchedulerStop

SpecStartup == InitStartup /\ [][NextStartup]_vars

(***************************************************************************)
(* Startup and shutdown of the server: index.ts calls start() at once and  *)
(* stop() when a signal arrives, which may be while start() still awaits.  *)
(***************************************************************************)
NextShutdown ==
    \/ LoadConfig
    \/ ServerStart
    \/ ServerStartResume
    \/ ServerStop
    \/ ServerStopDone
    \/ \E t \in timers : PollTimer(t)

SpecShutdown == InitStartup /\ [][NextShutdown]_vars

(***************************************************************************)
(* The cache policy under a loaded configuration: responses are stored for *)
(* the declared paths and for a path without any UrlConfig.                *)
(***************************************************************************)
PolicyPaths == DeclaredPaths \cup {"/other"}

NextPolicy ==
    \/ LoadConfig
    \/ \E path \in PolicyPaths : StoreLoadedEntry(path)

SpecPolicy == InitStartup /\ [][NextPolicy]_vars

(***************************************************************************)
(* One client that probes one URL again and again, each probe after the    *)
(* previous one has settled: long runs of consecutive failures.            *)
(***************************************************************************)
NextBackoff ==
    \/ /\ nFetch < MaxProbes
       /\ activeRequestCount = 0 /\ requestQueue = <<>>
       /\ Fetch("/a")
    \/ \E r \in inFlight : \E success \in BOOLEAN : Settle(r, success)
    \/ RunImmediate
    \/ WaitForRetry("/a")

SpecBackoff == InitCM /\ [][NextBackoff]_vars

(***************************************************************************)
(* One client that probes the URLs one request at a time, quiet periods in *)
(* which nothing fails, and a reader of the error rates.                   *)
(***************************************************************************)
\* half an error window passes without any request
Quiet ==
    /\ ticks < MaxQuiet
    /\ activeRequestCount = 0 /\ requestQueue = <<>>
    /\ ticks' = ticks + 1
    /\ now' = now + QuietMs
    /\ UNCHANGED <<cmVars, ceVars>>

NextStats ==
    \/ \E u \in Urls :
           /\ nFetch < MaxFetches
           /\ activeRequestCount = 0 /\ requestQueue = <<>>
           /\ ~isInBackoff(u)
           /\ Fetch(u)
    \/ \E r \in inFlight : \E success \in BOOLEAN : Settle(r, success)
    \/ RunImmediate
    \/ Quiet
    \/ GetErrorRateStats

SpecStats == InitCM /\ [][NextStats]_vars

(***************************************************************************)
(* One client that sends more requests than the ring of completed requests *)
(* holds, each after the previous one has settled; few of them fail.       *)
(***************************************************************************)
NextRing ==
    \/ /\ nFetch < MaxCompletions
       /\ activeRequestCount = 0 /\ requestQueue = <<>>
       /\ ~isInBackoff("/a")
       /\ Fetch("/a")
    \/ \E r \in inFlight : \E success \in BOOLEAN :
           /\ success \/ Len(errorEvents) < MaxRingFailures
           /\ Settle(r, success)
    \/ RunImmediate
    \/ WaitForRetry("/a")

SpecRing == InitCM /\ [][NextRing]_vars

(***************************************************************************)
(* Specification of the validating CacheManager over the ConnectionManager:*)
(* one fetch after the other, each with the callers that join it.          *)
(***************************************************************************)
InitVal ==
    /\ InitClock
    /\ maxConcurrentRequests = 2
    /\ InitConnectionManagerFor(ValUrls)
    /\ InitCacheManager
    /\ InitValidation
    /\ InitServer
    /\ InitScheduler({{}})

NextVal ==
    \/ \E u \in ValUrls :
          /\ valPending[u] > 0 \/ nFetch < MaxValFetches
          /\ valPending[u] < MaxWaiters
          /\ \A v \in ValUrls \ {u} : valPending[v] = 0
          /\ ValRequest(u)
    \/ \E r \in inFlight : \E outcome \in Outcomes :
          \E data \in IF AxiosResolves(outcome) THEN Payloads ELSE {NoPayload} :
              ValRespond(r, outcome, data)
    \/ RunImmediate
    \/ \E u \in ValUrls : WaitForRetry(u)

SpecVal == InitVal /\ [][NextVal]_vars

(***************************************************************************)
(* ResponseValidator.validate on its own: every validated path, a path     *)
(* with a query string, other paths, and payloads of every type.           *)
(***************************************************************************)
ValidatedPaths ==
    jsonEndpoints \cup {"/csv/v2", "/csv", "/aggregates?x=1", "/a"}

NextValidate ==
    \E path \in ValidatedPaths : \E data \in AllPayloads : Validate(path, data)

SpecValidate == InitVal /\ [][NextValidate]_vars

(***************************************************************************)
(* Properties of the ConnectionManager.                                    *)
(***************************************************************************)

\* C2: in every reachable state the number of upstream requests in progress,
\* and the activeRequestCount that counts them, is at most
\* maxConcurrentRequests.
C2_ConcurrencyCap ==
    /\ Cardinality(inFlight) <= maxConcurrentRequests
    /\ activeRequestCount = Cardinality(inFlight)

\* all slots busy while another request waits
C2_Witness ==
    /\ activeRequestCount = maxConcurrentRequests
    /\ Cardinality(inFlight) = maxConcurrentRequests
    /\ Len(requestQueue) > 0

\* C3: while a BackoffState exists for a URL and now < nextRetryTime, no
\* upstream call for that URL is started, whichever way the request came: no
\* request in progress was started while its URL was in backoff.
C3_NoStartInBackoff ==
    \A r \in inFlight : ~r.startedInBackoff

\* C4: after k >= 1 consecutive upstream failures of a URL its backoffDelay is
\* min(5000 * 2^(k-1), 300000) and its nextRetryTime is the time of the k-th
\* failure plus that delay; with no failure since the last success (k = 0) the
\* URL has no BackoffState.
C4_BackoffDelays ==
    \A u \in Urls :
        LET k == consecutiveFailures[u]
            b == backoffStates[u]
            ofUrl == SelectSeq(recentlyCompleted, LAMBDA c : c.fullUrl = u)
        IN  IF k = 0 THEN ~HasBackoff(u)
            ELSE /\ HasBackoff(u)
                 /\ b.consecutiveErrors = k
                 /\ b.backoffDelay = Min(5000 * Pow2(k - 1), 300000)
                 /\ ofUrl # <<>>
                 /\ ~ofUrl[1].success
                 /\ b.nextRetryTime = ofUrl[1].endTime + b.backoffDelay

\* the delay has reached the cap in a run of failures that began after a success
\* had reset an earlier backoff
C4_Witness ==
    /\ consecutiveFailures["/a"] >= 7
    /\ backoffStates["/a"].backoffDelay = 300000
    /\ \E i, j \in DOMAIN recentlyCompleted :
           i < j /\ recentlyCompleted[i].success /\ ~recentlyCompleted[j].success

\* C9: requests are dispatched in enqueue order (ids are given in enqueue
\* order): the dispatch order is increasing, and no waiting request is older
\* than a dispatched one.
C9_FifoDispatch ==
    /\ \A i, j \in DOMAIN dispatchOrder :
           i < j => dispatchOrder[i] < dispatchOrder[j]
    /\ \A i \in DOMAIN requestQueue :
           \A j \in DOMAIN dispatchOrder : requestQueue[i].id > dispatchOrder[j]
    /\ \A i, j \in DOMAIN requestQueue :
           i < j => requestQueue[i].id < requestQueue[j].id

\* two requests waited together, the older of them has been dispatched and the
\* younger still waits
C9_Witness ==
    \E r \in inFlight :
        /\ Len(requestQueue) > 0
        /\ requestQueue[1].id > r.id
        /\ requestQueue[1].queuedAt < r.startTime

\* C10: fetch(url) called while url is in backoff rejects with a BackoffError
\* carrying retryAfterMs = nextRetryTime - now and the current
\* consecutiveErrors, and leaves the queue, the active count, the backoff map
\* and the error events as they were.
C10_BackoffRejection ==
    [][\A u \in Urls :
          (isInBackoff(u) /\ nFetch' = nFetch + 1 /\ lastFetch'.fullUrl = u)
          => /\ lastFetch'.outcome = "BackoffError"
             /\ lastFetch'.retryAfterMs = backoffStates[u].nextRetryTime - now
             /\ lastFetch'.consecutiveErrors = backoffStates[u].consecutiveErrors
             /\ UNCHANGED <<requestQueue, activeRequestCount, activeUrls, inFlight,
                            backoffStates, errorEvents>>]_vars

\* a fetch has been rejected in the middle of a backoff window
C10_Witness ==
    /\ lastFetch.outcome = "BackoffError"
    /\ lastFetch.retryAfterMs > 0
    /\ lastFetch.retryAfterMs < backoffStates[lastFetch.fullUrl].backoffDelay
    /\ lastFetch.consecutiveErrors >= 1

(***************************************************************************)
(* Properties of the CacheManager.                                         *)
(***************************************************************************)
Done(c) == clients[c].st \in {"returned", "threw"}

InProgress(c) == clients[c].st \in {"racing", "waiting"}

UpstreamOf(k) == {f \in upstream : f.key = k}

\* C1 as stated: the getOrFetch calls of a key that missed together and shared
\* one upstream request all receive the same entry.
C1_SameEntryForAllCallers ==
    \A c, d \in Clients :
        (/\ Done(c) /\ Done(d)
         /\ clients[c].fetch # 0
         /\ clients[c].fetch = clients[d].fetch)
        => /\ clients[c].st = clients[d].st
           /\ clients[c].entry = clients[d].entry

\* C1, amended: the getOrFetch calls of a key that miss while a request for the
\* key is in flight all await that one request (there is never a second one
\* for the key), and all the callers that the request's result is delivered to
\* receive the same entry, the one the request stored; a caller whose slow
\* timeout fired first has returned the older entry instead.
C1_SingleFlight ==
    /\ \A k \in CacheKeys : Cardinality(UpstreamOf(k)) <= 1
    /\ \A c \in Clients :
           InProgress(c) =>
               /\ pendingRequests[clients[c].key] = clients[c].fetch
               /\ [id |-> clients[c].fetch, key |-> clients[c].key] \in upstream
    /\ \A c \in Clients :
           (Done(c) /\ clients[c].cause = "fetched") =>
               /\ clients[c].st = "returned"
               /\ clients[c].fetch # 0
               /\ clients[c].entry.data.id = clients[c].fetch
               /\ ~clients[c].fromCache
    /\ \A c, d \in Clients :
           (/\ Done(c) /\ Done(d)
            /\ clients[c].fetch # 0
            /\ clients[c].fetch = clients[d].fetch
            /\ clients[c].cause = clients[d].cause
            /\ clients[c].cause \in {"fetched", "failed"})
           => /\ clients[c].st = clients[d].st
              /\ clients[c].entry = clients[d].entry
              /\ clients[c].key = clients[d].key

\* two callers missed together, one upstream request was made, and both were
\* handed the entry it stored
C1_Witness ==
    \E c, d \in Clients :
        /\ c # d
        /\ clients[c].st = "returned" /\ clients[d].st = "returned"
        /\ clients[c].cause = "fetched" /\ clients[d].cause = "fetched"
        /\ clients[c].fetch = clients[d].fetch
        /\ clients[c].entry = clients[d].entry
        /\ nUpstream = 1

\* C5: when the fetch inside getOrFetch(K) fails, by an upstream failure or by
\* a backoff rejection, the call returns the entry the cache map holds for K,
\* however old, with fromCache = true; it throws only when the map holds none.
C5_StaleOnError ==
    [][\A c \in Clients :
          (/\ clients'[c] # clients[c]
           /\ clients'[c].cause \in {"failed", "BackoffError"})
          => LET k == clients'[c].key
             IN  IF cache[k] # NoEntry
                 THEN /\ clients'[c].st = "returned"
                      /\ clients'[c].entry = cache[k]
                      /\ clients'[c].fromCache
                 ELSE clients'[c].st = "threw"]_vars

\* an upstream failure was answered with an entry that is past its TTL
C5_Witness ==
    \E c \in Clients :
        /\ clients[c].st = "returned"
        /\ clients[c].cause = "failed"
        /\ clients[c].fromCache
        /\ clients[c].entry = cache[clients[c].key]
        /\ ~isCacheValid(clients[c].entry)

\* C6 as stated: exactly one refresh is scheduled per stale window, that is
\* for one stored entry: one once a lookup has found the entry stale, none
\* before.
C6_OneRefreshPerWindow ==
    \A k \in CacheKeys :
        refreshesOfEntry[k] = IF staleLookups[k] > 0 THEN 1 ELSE 0

\* C6, amended: a lookup of K whose entry is within TTL but at or past
\* staleTime returns the current entry with fromCache = true, and schedules a
\* background refresh exactly when none is scheduled or in progress for K; so
\* at most one refresh of K is scheduled or in progress at any time (a refresh
\* that has failed or was rejected in backoff is followed by another).
C6_StaleWhileRevalidate ==
    /\ [](\A k \in CacheKeys :
            /\ staleScheduled[k] + staleWaiting[k] <= 1
            /\ k \in staleUpdateQueue <=> staleScheduled[k] + staleWaiting[k] = 1)
    /\ [][\A k \in CacheKeys :
             staleLookups'[k] = staleLookups[k] + 1
             => /\ \E c \in Clients :
                       clients'[c] = Returned(k, 0, cache[k], TRUE, "hit")
                /\ cache' = cache
                /\ k \in staleUpdateQueue'
                /\ IF k \in staleUpdateQueue
                   THEN /\ staleScheduled'[k] = staleScheduled[k]
                        /\ refreshesOfEntry'[k] = refreshesOfEntry[k]
                   ELSE /\ staleScheduled'[k] = 1
                        /\ refreshesOfEntry'[k] = refreshesOfEntry[k] + 1]_vars

\* two lookups found the same entry stale and only the first scheduled a refresh
C6_Witness ==
    \E k \in CacheKeys :
        /\ staleLookups[k] >= 2
        /\ refreshesOfEntry[k] = 1
        /\ k \in staleUpdateQueue

\* C7: when the slow timeout of getOrFetch(K) elapses before the fetch has
\* settled, the call returns the entry the cache map holds for K, even an
\* expired one, with fromCache = true; with no entry it keeps waiting for the
\* same request and no second upstream request is made.  (A step that changes
\* a racing call and settles no upstream call is the firing of its timer.)
C7_SlowTimeout ==
    [][\A c \in Clients :
          (/\ clients[c].st = "racing"
           /\ clients'[c] # clients[c]
           /\ upstream \subseteq upstream')
          => LET k == clients[c].key
             IN  IF cache[k] # NoEntry
                 THEN clients'[c] =
                          Returned(k, clients[c].fetch, cache[k], TRUE, "timeout")
                 ELSE /\ clients'[c].st = "waiting"
                      /\ clients'[c].fetch = clients[c].fetch
                      /\ clients'[c].key = k
                      /\ nUpstream' = nUpstream
                      /\ upstream' = upstream
                      /\ pendingRequests' = pendingRequests]_vars

\* a slow request was answered with an expired entry while its fetch went on
C7_Witness ==
    \E c \in Clients :
        /\ clients[c].st = "returned"
        /\ clients[c].cause = "timeout"
        /\ clients[c].fromCache
        /\ ~isCacheValid(clients[c].entry)
        /\ pendingRequests[clients[c].key] = clients[c].fetch

\* C8: there is at most one pending request, and so at most one upstream call
\* in flight, per cache key, whoever asks (getOrFetch, poll, warm-up, stale
\* refresh): the pending request of a key is its upstream call in flight, and
\* a stale refresh or a caller that waits, waits for that one.
C8_OnePendingPerKey ==
    \A k \in CacheKeys :
        /\ Cardinality(UpstreamOf(k)) <= 1
        /\ \A f \in UpstreamOf(k) : pendingRequests[k] = f.id
        /\ pendingRequests[k] # 0 => UpstreamOf(k) # {}
        /\ staleWaiting[k] > 0 => pendingRequests[k] # 0
        /\ \A c \in Clients :
               (InProgress(c) /\ clients[c].key = k)
               => clients[c].fetch = pendingRequests[k]

\* a stale refresh and a getOrFetch call wait for the same pending request
C8_Witness ==
    \E k \in CacheKeys : \E c \in Clients :
        /\ pendingRequests[k] # 0
        /\ staleWaiting[k] > 0
        /\ InProgress(c)
        /\ clients[c].key = k
        /\ clients[c].fetch = pendingRequests[k]

(***************************************************************************)
(* Properties of the ConnectionManager: recovery from backoff.             *)
(***************************************************************************)

\* C11: a URL is never locked out for good.  Once now >= nextRetryTime a fetch
\* for it is admitted and, a slot being free, dispatched to the upstream as a
\* probe; when an upstream call of a URL with a BackoffState fails, the delay
\* doubles up to the cap of 300 s and nextRetryTime moves to now + delay; when
\* it succeeds, the URL has no BackoffState any more.
C11_ProbeAfterBackoff ==
    [][\A u \in Urls :
          /\ (/\ HasBackoff(u)
              /\ now >= backoffStates[u].nextRetryTime
              /\ nFetch' = nFetch + 1
              /\ lastFetch'.fullUrl = u)
             => /\ lastFetch'.outcome = "queued"
                /\ (requestQueue = <<>> /\ activeRequestCount < maxConcurrentRequests)
                   => \E r \in inFlight' \ inFlight :
                          r.fullUrl = u /\ r.id = nFetch' /\ r.startTime = now
          /\ (HasBackoff(u) /\ consecutiveFailures'[u] = consecutiveFailures[u] + 1)
             => /\ backoffStates'[u].backoffDelay =
                       Min(2 * backoffStates[u].backoffDelay, 300000)
                /\ backoffStates'[u].nextRetryTime =
                       now + backoffStates'[u].backoffDelay
                /\ backoffStates'[u].nextRetryTime < now + 300001
          /\ (HasBackoff(u) /\ consecutiveFailures'[u] = 0)
             => backoffStates'[u] = NoBackoff]_vars

\* a probe is in flight: it was admitted at the very instant the second backoff
\* window of its URL ended
C11_Witness ==
    \E r \in inFlight :
        /\ r.fullUrl = "/a"
        /\ backoffStates["/a"].consecutiveErrors >= 2
        /\ r.startTime = backoffStates["/a"].nextRetryTime
        /\ now = r.startTime
        /\ lastFetch.outcome = "queued"

\* C19: an upstream response with a status below 500 (4xx included) counts as
\* a success: the request is resolved (recorded as a success) and the URL has
\* no BackoffState afterwards, with no ErrorEvent added.  A 5xx response, a
\* network error or a timeout counts as a failure: the request is rejected,
\* exactly one ErrorEvent (now, url) is appended, events older than the window
\* are dropped and the URL's backoff is updated.
C19_StatusClassification ==
    [][\A r \in inFlight : \A outcome \in Outcomes :
          Respond(r, outcome) =>
              LET u == r.fullUrl
                  InWindow(event) == now - event.timestamp < 600000
              IN  IF outcome.kind = "response" /\ outcome.status < 500
                  THEN /\ recentlyCompleted'[1].success
                       /\ recentlyCompleted'[1].fullUrl = u
                       /\ backoffStates'[u] = NoBackoff
                       /\ errorEvents' = errorEvents
                  ELSE /\ ~recentlyCompleted'[1].success
                       /\ recentlyCompleted'[1].fullUrl = u
                       /\ errorEvents' =
                              SelectSeq(errorEvents, InWindow)
                              \o <<[timestamp |-> now, path |-> u]>>
                       /\ backoffStates'[u].consecutiveErrors =
                              backoffStates[u].consecutiveErrors + 1
                       /\ backoffStates'[u].lastErrorTime = now
                       /\ backoffStates'[u].nextRetryTime > now]_vars

\* a URL in backoff has been released by a success, and failed again later
C19_Witness ==
    \E i, j \in DOMAIN recentlyCompleted :
        /\ i < j
        /\ recentlyCompleted[j].success
        /\ recentlyCompleted[j].fullUrl = recentlyCompleted[i].fullUrl
        /\ ~recentlyCompleted[i].success
        /\ Len(errorEvents) >= 2
        /\ backoffStates[recentlyCompleted[i].fullUrl].consecutiveErrors = 1

(***************************************************************************)
(* Properties of the validating CacheManager.                              *)
(***************************************************************************)
\* the built-in policy in words: a JSON endpoint takes objects only (not null,
\* not the string "null"), the CSV endpoint strings with at least 4 commas
PassesBuiltInPolicy(u, data) ==
    IF u \in {"/aggregates", "/soe", "/strings", "/freq", "/fans/pw", "/version"}
    THEN data.kind = "object"
    ELSE IF u = "/csv/v2"
    THEN data.kind = "string"
         /\ Cardinality({i \in DOMAIN data.text : data.text[i] = ","}) >= 4
    ELSE TRUE

\* the upstream answered outcome, a response that is not an upstream failure
Answered(outcome) == outcome.kind = "response" /\ outcome.status < 500

C15_NonGetNeverCached ==
    [][\A c \in Clients :
          (/\ clients[c].st = "forwarding"
           /\ clients[c].cause = "started"
           /\ clients'[c].st # "forwarding"
           /\ \A f \in upstream \ upstream' :
                 Attached(f) = {} /\ staleWaiting[f.key] = 0)
          => cache' = cache]_vars

\* C16: get(K), the first step of getOrFetch(K), returns an entry if and only
\* if the cache map holds an entry for K whose age now - timestamp is below its
\* ttl, and then it is that entry, counted as a hit; an entry whose age is at
\* or beyond its ttl is not returned by get, and the lookup is counted as a
\* miss.
C16_GetReturnsValidOnly ==
    [][\A c \in Clients : \A k \in CacheKeys :
          GetOrFetch(c, k) =>
              LET held == cache[k] # NoEntry
                  age == now - cache[k].timestamp
              IN  /\ (clients'[c].cause = "hit")
                         <=> (held /\ age < cache[k].ttl)
                  /\ (held /\ age < cache[k].ttl) =>
                         /\ clients'[c].st = "returned"
                         /\ clients'[c].entry = cache[k]
                         /\ cacheStats'[k].hits = cacheStats[k].hits + 1
                         /\ cacheStats'[k].misses = cacheStats[k].misses
                  /\ (held /\ age >= cache[k].ttl) =>
                         /\ cacheStats'[k].misses = cacheStats[k].misses + 1
                         /\ cacheStats'[k].hits = cacheStats[k].hits
                  /\ ~held =>
                         /\ cacheStats'[k].misses = cacheStats[k].misses + 1
                         /\ cacheStats'[k].hits = cacheStats[k].hits]_vars

\* a lookup of an entry whose age equals its ttl exactly was a miss: the caller
\* waits for a new upstream call
C16_Witness ==
    \E c \in Clients :
        LET k == clients[c].key
        IN  /\ clients[c].st = "racing"
            /\ clients[c].deadline = now + Config.cache.slowRequestTimeout
            /\ cache[k] # NoEntry
            /\ now - cache[k].timestamp = cache[k].ttl
            /\ cacheStats[k].hits = 0
            /\ cacheStats[k].misses >= 1

\* C17: a failed fetch leaves the cache map as it was, the entry of its key
\* included. The fetch fails when its upstream call ends without a response
\* to store (no plugin is notified of it), or when it is rejected because the
\* URL is in backoff: the caller gets a BackoffError (or the old entry in its
\* place), or the stale refresh ends without an upstream call.
C17_FailedFetchKeepsEntry ==
    [][(\/ \E f \in upstream \ upstream' : f.id \notin notified'
        \/ \E c \in Clients :
              /\ clients'[c] # clients[c]
              /\ clients'[c].cause \in {"failed", "BackoffError"}
        \/ \E k \in CacheKeys :
              /\ staleScheduled'[k] < staleScheduled[k]
              /\ staleWaiting'[k] = staleWaiting[k]
              /\ k \notin staleUpdateQueue')
       => cache' = cache]_vars

\* the stale refresh of /a?x=1 has failed (the one miss was answered and
\* stored, the one hit queued the refresh, the URL has one error), and the
\* entry, stale but within its ttl, is still in the cache
C17_Witness ==
    LET k == "/a?x=1"
    IN  /\ cache[k] # NoEntry
        /\ isCacheStale(cache[k])
        /\ isCacheValid(cache[k])
        /\ cacheStats[k] = [hits |-> 1, misses |-> 1]
        /\ cacheBackoffStates[k] # NoBackoff
        /\ cacheBackoffStates[k].consecutiveErrors = 1
        /\ k \notin staleUpdateQueue
        /\ pendingRequests[k] = 0

\* C18: when getOrFetch returns a stale entry because the slow timeout fired,
\* the upstream call it was waiting for is not cancelled: it stays in flight
\* and registered as the pending request of the key. When that call later
\* succeeds, the entry of the key is replaced by its response, which is what
\* later lookups of the key find.
C18_TimeoutDoesNotCancel ==
    [][/\ \A c \in Clients :
             (/\ clients[c].st = "racing"
              /\ clients'[c].st = "returned"
              /\ clients'[c].cause = "timeout")
             => /\ upstream' = upstream
                /\ pendingRequests' = pendingRequests
                /\ \E f \in upstream' :
                      /\ f.id = clients[c].fetch
                      /\ f.key = clients[c].key
                      /\ pendingRequests'[f.key] = f.id
       /\ \A f \in upstream \ upstream' : \A c \in Clients :
             (/\ f.id \in notified'
              /\ clients[c].st = "returned"
              /\ clients[c].cause = "timeout"
              /\ clients[c].fetch = f.id)
             => /\ cache'[f.key].data = ResponseData(f.id, f.key)
                /\ cache'[f.key].timestamp = now
                /\ cache'[f.key] # clients[c].entry]_vars

\* a caller was handed the old entry at the slow timeout, and the upstream
\* call it had been waiting for has since replaced the entry of the key
C18_Witness ==
    \E c \in Clients :
        /\ clients[c].st = "returned"
        /\ clients[c].cause = "timeout"
        /\ clients[c].entry.data.id # clients[c].fetch
        /\ cache[clients[c].key].data.id = clients[c].fetch
        /\ \A f \in upstream : f.id # clients[c].fetch

(***************************************************************************)
(* Properties of the startup.                                              *)
(***************************************************************************)
\* C20: polling is enabled for exactly the configured paths with
\* pollInterval > 0: a urlConfig declared without pollInterval, or with
\* pollInterval 0, gets no polling timer and no warm-up fetch, and one
\* declared with a positive pollInterval has both once the scheduler runs.
C20_PollingOnlyWherePositive ==
    \A d \in configFile :
        /\ (~IsSet(d.pollInterval) \/ d.pollInterval = Set(0)) =>
               /\ d.path \notin warmRequests
               /\ \A t \in intervals : t.path # d.path
        /\ (IsSet(d.pollInterval) /\ ValueOf(d.pollInterval) > 0) =>
               /\ schedulerPhase \in {"warmed", "started"} =>
                      d.path \in warmRequests
               /\ schedulerPhase = "started" =>
                      \E t \in intervals :
                          /\ t.path = d.path
                          /\ t.seconds = ValueOf(d.pollInterval)

(***************************************************************************)
(* Properties of the PollingScheduler.                                     *)
(***************************************************************************)
\* C21: a poll tick for a path that is in backoff is skipped silently: it
\* starts no upstream call, enqueues nothing, appends no ErrorEvent and leaves
\* the BackoffState as it is (nothing at all changes); a tick for a path that
\* is not in backoff calls fetchFromBackend for the path, after which a
\* request for the path is pending upstream.
C21_PollSkipsInBackoff ==
    [][\A path \in PolledPaths :
          Poll(path) =>
              IF /\ cacheBackoffStates[path] # NoBackoff
                 /\ now < cacheBackoffStates[path].nextRetryTime
              THEN /\ upstream' = upstream
                   /\ nUpstream' = nUpstream
                   /\ pendingRequests' = pendingRequests
                   /\ staleUpdateQueue' = staleUpdateQueue
                   /\ requestQueue' = requestQueue
                   /\ cacheErrorEvents' = cacheErrorEvents
                   /\ errorEvents' = errorEvents
                   /\ cacheBackoffStates' = cacheBackoffStates
                   /\ backoffStates' = backoffStates
                   /\ cache' = cache
              ELSE /\ pendingRequests'[path] # 0
                   /\ \E f \in upstream' :
                         f.key = path /\ f.id = pendingRequests'[path]
                   /\ pendingRequests[path] = 0 =>
                         /\ nUpstream' = nUpstream + 1
                         /\ pendingRequests'[path] = nUpstream']_vars

\* nobody but the scheduler has asked for /a: the warm-up call and then the
\* call of a poll tick have failed, and /a is in backoff, where ticks are
\* skipped
C21_Witness ==
    /\ warmed
    /\ nCalls = 0
    /\ nUpstream = 2
    /\ upstream = {}
    /\ cacheBackoffStates["/a"] # NoBackoff
    /\ cacheBackoffStates["/a"].consecutiveErrors >= 1
    /\ now < cacheBackoffStates["/a"].nextRetryTime

\* C22: after PollingScheduler.stop() no polling timer remains scheduled, so
\* that no further tick can fire, whatever calls of start() and stop() came
\* before (start() called more than once included).
C22_StopCancelsAllTimers ==
    schedulerPhase = "stopped" => (timers = {} /\ intervals = {})

(***************************************************************************)
(* Properties of the cache map, continued.                                 *)
(***************************************************************************)
\* C23: clearCache() empties the cache map and changes nothing else: the
\* backoff states, the error events, the hit and miss counters, the request
\* queue and the completion ring are the same after the call as before it, and
\* so are the pending requests and the upstream calls in flight.
C23_ClearOnlyEmptiesCache ==
    [][(/\ \E k \in CacheKeys : cache[k] # NoEntry
        /\ \A k \in CacheKeys : cache'[k] = NoEntry)
       => /\ cacheBackoffStates' = cacheBackoffStates
          /\ cacheErrorEvents' = cacheErrorEvents
          /\ cacheStats' = cacheStats
          /\ backoffStates' = backoffStates
          /\ errorEvents' = errorEvents
          /\ requestQueue' = requestQueue
          /\ recentlyCompleted' = recentlyCompleted
          /\ pendingRequests' = pendingRequests
          /\ upstream' = upstream
          /\ staleUpdateQueue' = staleUpdateQueue
          /\ clients' = clients]_vars

\* the cache was cleared after /a had been served from it and had failed
\* once: the map is empty, the hit, the error event and the backoff state are
\* still there
C23_Witness ==
    /\ \A k \in CacheKeys : cache[k] = NoEntry
    /\ cacheStats["/a"].hits >= 1
    /\ Len(cacheErrorEvents) >= 1
    /\ cacheBackoffStates["/a"] # NoBackoff

C25_PolicyByPath ==
    \A k \in CacheKeys :
        cache[k] # NoEntry =>
            LET configured == {c \in Config.urlConfigs : c.path = PathOf(k)}
            IN  /\ \A c \in configured :
                      /\ cache[k].ttl = c.cacheTTL * 1000
                      /\ cache[k].staleTime = c.staleTime * 1000
                /\ configured = {} =>
                      /\ cache[k].ttl = Config.cache.defaultTTL * 1000
                      /\ cache[k].staleTime = Config.cache.defaultStaleTime * 1000

\* C26: every CacheEntry satisfies 0 <= staleTime <= ttl, for every
\* configuration the loader accepts: the defaults, per-path configs and user
\* overrides merged with the defaults.
C26_StaleTimeWithinTtl ==
    \A e \in loadedEntries : 0 <= e.staleTime /\ e.staleTime <= e.ttl

(***************************************************************************)
(* Properties of the ResponseValidator.                                    *)
(***************************************************************************)
\* C27: validate(path, data) returns false exactly when path is one of
\* /aggregates, /soe, /strings, /freq, /fans/pw, /version and data is null,
\* undefined, the string "null" or not an object, or path is /csv/v2 and data
\* is not a string or contains fewer than 4 commas; for every other input it
\* returns true.
C27_ValidateExactly ==
    validated # NotValidated =>
        LET path == validated.path
            data == validated.data
            isObject == data.kind \in {"object", "array"}
            isString == data.kind = "string"
            commas == Cardinality({i \in DOMAIN data.text : data.text[i] = ","})
            rejectedJson ==
                /\ path \in {"/aggregates", "/soe", "/strings", "/freq",
                              "/fans/pw", "/version"}
                /\ \/ data.kind \in {"null", "undefined"}
                   \/ isString /\ data.text = <<"n", "u", "l", "l">>
                   \/ ~isObject
            rejectedCsv ==
                /\ path = "/csv/v2"
                /\ ~isString \/ commas < 4
        IN  (validated.result = FALSE) <=> (rejectedJson \/ rejectedCsv)

\* a string with exactly 4 commas was accepted for /csv/v2
C27_Witness ==
    /\ validated.path = "/csv/v2"
    /\ validated.data = LongCsv
    /\ validated.result = TRUE

(***************************************************************************)
(* Properties of the proxy handler.                                        *)
(***************************************************************************)
\* C28: when a proxied GET fails and there is no cache entry to fall back
\* on, the front-end answers 503 if the error is a BackoffError, a refused
\* connection, a DNS failure or an upstream timeout, and 500 for every other
\* error.
C28_UnavailableOrInternalError ==
    answered # NoAnswer =>
        /\ answered.error.kind \in {"BackoffError", "connection refused",
                                     "DNS failure", "timeout"}
              => answered.status = 503
        /\ answered.error.kind \notin {"BackoffError", "connection refused",
                                        "DNS failure", "timeout"}
              => answered.status = 500

(***************************************************************************)
(* Properties of the error rates.                                          *)
(***************************************************************************)
\* the upstream failures of the given paths that the ConnectionManager has
\* completed less than ten minutes ago
FailuresInWindow(paths) ==
    {i \in DOMAIN recentlyCompleted :
        /\ ~recentlyCompleted[i].success
        /\ recentlyCompleted[i].fullUrl \in paths
        /\ now - recentlyCompleted[i].endTime < ERROR_WINDOW_MS}

\* C29: at any read the global error rate is the number of failures of the
\* last ten minutes divided by ten, and the rate of a path is the same count
\* restricted to the path (paths without such a failure have no rate);
\* older failures never contribute, pruned or not.
C29_ErrorRateOverWindow ==
    [][GetErrorRateStats =>
          /\ errorStats'.errorRate = <<Cardinality(FailuresInWindow(Urls)), 10>>
          /\ DOMAIN errorStats'.errorRateByPath
                 = {p \in Urls : FailuresInWindow({p}) # {}}
          /\ \A p \in DOMAIN errorStats'.errorRateByPath :
                 errorStats'.errorRateByPath[p]
                     = <<Cardinality(FailuresInWindow({p})), 10>>]_vars

\* a read while an event older than ten minutes is still held, and events
\* of two paths are within the window
C29_Witness ==
    /\ errorStats = ErrorStatsOf(RecentErrors)
    /\ \E i \in DOMAIN errorEvents :
           now - errorEvents[i].timestamp >= ERROR_WINDOW_MS
    /\ DOMAIN errorStats.errorRateByPath = {"/a", "/b"}
    /\ errorStats.errorRate[1] < Len(errorEvents)

(***************************************************************************)
(* Properties of the ring of completed requests.                           *)
(***************************************************************************)
\* C30: the ring never holds more than 20 records and is ordered newest
\* first: every completion puts its record, with its success flag, in front
\* of the earlier ones, which keep their order, and only the oldest record is
\* dropped, when the ring was full.
C30_RecentRing ==
    [][/\ Len(recentlyCompleted') <= 20
       /\ \A r \in inFlight : r \notin inFlight' =>
              /\ Len(recentlyCompleted') = Min(Len(recentlyCompleted) + 1, 20)
              /\ recentlyCompleted'[1].fullUrl = r.fullUrl
              /\ recentlyCompleted'[1].startTime = r.startTime
              /\ recentlyCompleted'[1].endTime = now
              /\ recentlyCompleted'[1].success
                     = (consecutiveFailures'[r.fullUrl] = 0)
              /\ \A i \in 2..Len(recentlyCompleted') :
                     recentlyCompleted'[i] = recentlyCompleted[i - 1]]_vars

\* more requests have completed than the ring holds, a failed one among
\* those it still holds
C30_Witness ==
    /\ nFetch > 20
    /\ inFlight = {}
    /\ Len(recentlyCompleted) = 20
    /\ \E i \in DOMAIN recentlyCompleted : ~recentlyCompleted[i].success
    /\ recentlyCompleted[1].success

(***************************************************************************)
(* Properties of the dispatch loop under overlapping triggers.             *)
(***************************************************************************)
QueuedIds == {requestQueue[i].id : i \in DOMAIN requestQueue}

DispatchedIds == Range(dispatchOrder)

\* C31: every request accepted into the queue is dispatched exactly once,
\* whichever trigger runs the dispatch loop: no request is started twice, a
\* request is either waiting or dispatched, each step starts exactly the
\* requests it takes from the queue, and the only request a step adds is the
\* one fetch has accepted; none is dropped.
C31_DispatchedExactlyOnce ==
    [][LET QueuedIdsAfter == {requestQueue'[i].id : i \in DOMAIN requestQueue'}
           DispatchedAfter == Range(dispatchOrder')
           accepted == IF nFetch' = nFetch + 1 /\ lastFetch'.outcome = "queued"
                       THEN {nFetch'}
                       ELSE {}
           started == {r.id : r \in inFlight' \ inFlight}
       IN  /\ \A i, j \in DOMAIN dispatchOrder' :
                  i # j => dispatchOrder'[i] # dispatchOrder'[j]
           /\ \A i, j \in DOMAIN requestQueue' :
                  i # j => requestQueue'[i].id # requestQueue'[j].id
           /\ QueuedIdsAfter \cap DispatchedAfter = {}
           /\ QueuedIdsAfter \cup DispatchedAfter
                  = QueuedIds \cup DispatchedIds \cup accepted
           /\ DispatchedAfter \ DispatchedIds = started
           /\ Len(dispatchOrder') = Len(dispatchOrder) + Cardinality(started)
           /\ Cardinality(inFlight' \ inFlight) = Cardinality(started)]_vars

\* a request that was accepted while every slot was busy has been started by
\* the dispatch a completion scheduled, and another one still waits
C31_Witness ==
    /\ Len(dispatchOrder) > maxConcurrentRequests
    /\ recentlyCompleted # <<>>
    /\ Len(requestQueue) > 0
    /\ \E r \in inFlight : r.startTime >= recentlyCompleted[1].endTime
                            /\ r.id > maxConcurrentRequests

(***************************************************************************)
(* Properties of the pending map at the settlement of a fetch.             *)
(***************************************************************************)
\* the upstream calls that settle in this step
Settling == upstream \ upstream'

\* C32, amended: when a fetch settles, with a response or with an error, its
\* key has left the pending map before its waiters have resumed, so a waiter
\* that calls fetchFromBackend for the key at once never joins the settled
\* fetch: after a success the call starts a new fetch, after a failure the
\* key is in backoff and the call is answered without an upstream call.
C32_PendingRemovedBeforeResume ==
    [][\A f \in Settling :
          /\ pendingRequests'[f.key] = 0
          /\ \A c \in Attached(f) :
                 /\ clients'[c].st \in {"returned", "threw"}
                 /\ clients'[c].fetch = f.id
          /\ FetchOutcome(f.key)'.kind # "joined"
          /\ IF f.id \in notified'
             THEN FetchOutcome(f.key)'.kind = "started"
             ELSE FetchOutcome(f.key)'.kind \in {"BackoffError", "cached"}]_vars

\* C32 as stated: after a success and after a failure alike, a waiter that
\* retries the key at once starts a new fetch.
C32_RetryStartsNewFetch ==
    [][\A f \in Settling :
          /\ pendingRequests'[f.key] = 0
          /\ Attached(f) # {} => FetchOutcome(f.key)'.kind = "started"]_vars

\* two waiters of one fetch have resumed with its error, the key has left
\* the pending map and is in backoff
C32_Witness ==
    /\ \E c, d \in Clients :
           /\ c # d
           /\ clients[c].st = "threw" /\ clients[d].st = "threw"
           /\ clients[c].cause = "failed" /\ clients[d].cause = "failed"
           /\ clients[c].fetch = clients[d].fetch
           /\ pendingRequests[clients[c].key] = 0
           /\ cacheIsInBackoff(clients[c].key)

InFlightIds == {r.id : r \in inFlight}

\* C34: as every upstream call settles, every request that fetch has put in
\* the queue is dispatched, and every dispatched request comes to its end,
\* where its promise is settled; each dispatched request that is over has
\* been settled exactly once. A request that waits while all slots are busy
\* is among them.
C34_EventuallySettledOnce ==
    /\ \A id \in 1..MaxFetches :
           /\ (id \in QueuedIds) ~> (id \in DispatchedIds)
           /\ (id \in InFlightIds) ~> (id \in DispatchedIds \ InFlightIds)
    /\ [](Len(recentlyCompleted) = Len(dispatchOrder) - Cardinality(inFlight))
    /\ [][({r.id : r \in inFlight'} \ InFlightIds) \cap DispatchedIds = {}]_vars

\* a request that waited while the only slot was busy has been started after
\* a completion, and a younger one waits for the next completion
C34_Witness ==
    /\ maxConcurrentRequests = 1
    /\ recentlyCompleted # <<>>
    /\ Len(requestQueue) > 0
    /\ \E r \in inFlight :
           /\ r.id < requestQueue[1].id
           /\ requestQueue[1].queuedAt < r.startTime
           /\ recentlyCompleted[1].endTime <= r.startTime

(***************************************************************************)
(* Properties of the fromCache flag.                                       *)
(***************************************************************************)
\* C35: getOrFetch returns fromCache = false only with the entry of an
\* upstream call that this call started or joined and that has answered; an
\* entry handed back without such a call, as during backoff, is reported
\* with fromCache = true.
C35_MissOnlyAfterUpstream ==
    \A c \in Clients :
        (clients[c].st = "returned" /\ ~clients[c].fromCache
            /\ clients[c].cause # "forwarded")
        => /\ clients[c].fetch # 0
           /\ clients[c].fetch \in notified
           /\ clients[c].entry.data = ResponseData(clients[c].fetch, clients[c].key)

(***************************************************************************)
(* Properties of the queue telemetry.                                      *)
(***************************************************************************)
\* C36: the activeUrls of getQueueStats hold the URL of every request in
\* progress, also after one of two requests in progress for the same URL has
\* completed.
C36_ActiveUrlsCoverInFlight ==
    activeRequestCount > 0 => \A r \in inFlight : r.fullUrl \in activeUrls

(***************************************************************************)
(* Properties of the shutdown.                                             *)
(***************************************************************************)
\* C37: once ProxyServer.stop() has completed no polling timer is scheduled,
\* however start() and stop() interleave, stop() during the warmCache() that
\* start() awaits included.
C37_NoTimerAfterServerStop ==
    lifecycle.stop = "done" => timers = {}

(***************************************************************************)
(* Properties of the backoff map across URLs.                              *)
(***************************************************************************)
\* C38: backoff is kept per URL: the failure or success of a request for one
\* URL leaves the BackoffState of every other URL as it was, and whether a
\* fetch of a URL is admitted or rejected depends on the state of that URL
\* alone.
C38_BackoffPerUrl ==
    [][/\ \A r \in inFlight : r \notin inFlight' =>
              \A u \in Urls \ {r.fullUrl} :
                  /\ backoffStates'[u] = backoffStates[u]
                  /\ isInBackoff(u)' = isInBackoff(u)
       /\ \A u \in Urls :
              (nFetch' = nFetch + 1 /\ lastFetch'.fullUrl = u)
              => ((lastFetch'.outcome = "BackoffError") <=> isInBackoff(u))]_vars

\* a request for /a has succeeded after one for /b had failed: /b is still
\* in backoff with its one error, /a has no BackoffState
C38_Witness ==
    /\ Len(recentlyCompleted) >= 2
    /\ recentlyCompleted[1].fullUrl = "/a" /\ recentlyCompleted[1].success
    /\ recentlyCompleted[2].fullUrl = "/b" /\ ~recentlyCompleted[2].success
    /\ isInBackoff("/b")
    /\ backoffStates["/b"].consecutiveErrors = 1
    /\ ~HasBackoff("/a")

(***************************************************************************)
(* Properties of the life of a cache entry.                                *)
(***************************************************************************)
\* C39: only clearCache() takes a key out of the cache map: the entry of a
\* key changes only by being replaced whole with the response of a fetch
\* that has just succeeded, and lookups, failed fetches, timeouts, backoff
\* and the passing of its TTL leave it in place.
C39_OnlyClearCacheRemoves ==
    [][\A k \in CacheKeys :
          cache[k] # NoEntry =>
              /\ cache'[k] = NoEntry => ClearCache
              /\ (cache'[k] # NoEntry /\ cache'[k] # cache[k]) =>
                     \E f \in Settling :
                         /\ f.key = k
                         /\ f.id \in notified'
                         /\ cache'[k].data = ResponseData(f.id, k)
                         /\ cache'[k].timestamp = now]_vars

\* an entry is past its TTL, a fetch for its key has failed and a client was
\* handed the expired entry: the entry is still in the map
C39_Witness ==
    \E k \in CacheKeys : \E c \in Clients :
        /\ cache[k] # NoEntry
        /\ ~isCacheValid(cache[k])
        /\ cacheIsInBackoff(k)
        /\ clients[c].st = "returned" /\ clients[c].key = k
        /\ clients[c].cause = "failed"
        /\ clients[c].entry = cache[k]

====
